---- MODULE Spec2Model ----
(***************************************************************************)
(* A model of eincheck's shape constraint solver (eincheck/checks/shapes.py *)
(* with the DimSpec / ShapeSpec / Expr classes of eincheck/parser).         *)
(*                                                                         *)
(* Conventions                                                             *)
(*   - a ShapeVariable is a record [k, t]: k = "int" with t = <<n>>, or     *)
(*     k = "tuple" with t the tuple; Python's None is k = "none"; a raised  *)
(*     exception is a record whose k is the error kind;                     *)
(*   - an observed shape is a sequence of integers in which NoneDim stands  *)
(*     for an unknown (None) dimension;                                     *)
(*   - bindings are functions from variable names to ShapeVariables.        *)
(***************************************************************************)
EXTENDS Integers, Sequences, FiniteSets, TLC

\* ------------------------------------------------------------------ bounds
\* the calls of one entry take every observed shape of up to MaxRank
\* dimensions, each in 1..MaxDim or unknown, and every literal spec of up to
\* MaxRank slots; the calls over the catalogue of entries take up to
\* MaxEntries of them
MaxRank == 2
MaxDim == 2
MaxEntries == 2

\* the placeholder of an unknown dimension in an observed shape
NoneDim == -1

\* ------------------------------------------------------------------ values
IntV(n) == [k |-> "int", t |-> <<n>>]
TupV(s) == [k |-> "tuple", t |-> s]
NoneV == [k |-> "none", t |-> <<>>]
ErrV(e) == [k |-> e, t |-> <<>>]
IsErr(v) == v.k \notin {"int", "tuple", "none"}

EmptyB == [x \in {} |-> NoneV]
setdefault(b, x, v) == [y \in (DOMAIN b) \cup {x} |-> IF y \in DOMAIN b THEN b[y] ELSE v]

RECURSIVE SumSeq(_)
SumSeq(s) == IF s = <<>> THEN 0 ELSE Head(s) + SumSeq(Tail(s))

Ones(n) == [i \in 1..n |-> 1]

\* ------------------------------------------------------------- expressions
Literal(n) == [op |-> "lit", n |-> n, x |-> "", args |-> <<>>]
Variable(x) == [op |-> "var", n |-> 0, x |-> x, args |-> <<>>]
BinaryOp(op, l, r) == [op |-> op, n |-> 0, x |-> "", args |-> <<l, r>>]
AddOp(l, r) == BinaryOp("+", l, r)
SubOp(l, r) == BinaryOp("-", l, r)
MulOp(l, r) == BinaryOp("*", l, r)
ConcatOp(l, r) == BinaryOp("||", l, r)
BroadcastOp(l, r) == BinaryOp("^", l, r)
DataExpr == [op |-> "data", n |-> 0, x |-> "", args |-> <<>>]
\* DimSpec.value = None
NoExpr == [op |-> "none", n |-> 0, x |-> "", args |-> <<>>]

RECURSIVE variables(_)
variables(e) ==
    IF e.op = "var" THEN {e.x}
    ELSE IF e.args = <<>> THEN {}
    ELSE variables(e.args[1]) \cup variables(e.args[2])

is_defined(e, values) == variables(e) \subseteq values

expected_type(op) == IF op \in {"+", "-", "*"} THEN "int" ELSE "tuple"

\* BroadcastOp.broadcast on two integer tuples
broadcast(x0, y0) ==
    LET len_diff == Len(x0) - Len(y0)
        y == IF len_diff > 0 THEN Ones(len_diff) \o y0 ELSE y0
        x == IF len_diff < 0 THEN Ones(-len_diff) \o x0 ELSE x0
        bad == {i \in 1..Len(x) : x[i] # 1 /\ y[i] # 1 /\ x[i] # y[i]}
    IN  IF bad # {} THEN ErrV("BroadcastMismatch")
        ELSE TupV([i \in 1..Len(x) |-> IF x[i] = 1 THEN y[i] ELSE x[i]])

func(op, x, y) ==
    CASE op = "+" -> IntV(x.t[1] + y.t[1])
      [] op = "-" -> IntV(x.t[1] - y.t[1])
      [] op = "*" -> IntV(x.t[1] * y.t[1])
      [] op = "||" -> TupV(x.t \o y.t)
      [] op = "^" -> broadcast(x.t, y.t)

\* _BinaryOp.eval once both operands are evaluated
binary_eval(op, x, y) ==
    IF IsErr(x) THEN x
    ELSE IF IsErr(y) THEN y
    ELSE IF x.k # expected_type(op) THEN ErrV("TypeMismatch")
    ELSE IF y.k # expected_type(op) THEN ErrV("TypeMismatch")
    ELSE func(op, x, y)

RECURSIVE eval(_, _)
eval(e, values) ==
    CASE e.op = "lit" -> IntV(e.n)
      [] e.op = "var" -> IF e.x \in DOMAIN values THEN values[e.x] ELSE ErrV("KeyError")
      [] e.op = "data" -> ErrV("DataExprEval")
      [] e.op = "none" -> ErrV("AttributeError")
      [] OTHER -> binary_eval(e.op, eval(e.args[1], values), eval(e.args[2], values))

\* ------------------------------------------------------------------ DimSpec
DimSpec(value, type, can_broadcast) ==
    [value |-> value, type |-> type, can_broadcast |-> can_broadcast]

dim_is_defined(d, values) ==
    IF d.value.op = "none" THEN TRUE ELSE is_defined(d.value, values)

\* a faulty DimSpec.is_checkable, without the slots that are defined
dim_is_checkable_bare(d, values) == d.value.op = "var" /\ ~d.can_broadcast

\* a faulty DimSpec.is_checkable, which takes the broadcast-tolerant slots
dim_is_checkable_tolerant(d, values) ==
    (d.value.op = "var" /\ d.can_broadcast) \/ dim_is_defined(d, values)

dim_is_checkable(d, values) ==
    (d.value.op = "var" /\ ~d.can_broadcast) \/ dim_is_defined(d, values)

\* the width of a VARIADIC slot whose expression evaluated to got
n_dims_of(got) ==
    IF got.k = "tuple" THEN IntV(Len(got.t))
    ELSE IF IsErr(got) THEN got
    ELSE NoneV

n_dims(d, bindings) ==
    IF d.type = "single" THEN IntV(1)
    ELSE IF d.type = "repeated" THEN NoneV
    ELSE IF d.value.op # "none" /\ dim_is_defined(d, DOMAIN bindings)
         THEN n_dims_of(eval(d.value, bindings))
    ELSE NoneV

\* ---------------------------------------------------------------- ShapeSpec
n_dims_per_spec(dims, bindings) == [i \in 1..Len(dims) |-> n_dims(dims[i], bindings)]

\* the first exception among the widths nd, NoneV when there is none
first_error(nd) ==
    LET bad == {i \in 1..Len(nd) : IsErr(nd[i])}
    IN  IF bad = {} THEN NoneV
        ELSE nd[CHOOSE i \in bad : \A j \in bad : i <= j]

\* the exception raised while the widths are computed, NoneV when none is
n_dims_error(dims, bindings) == first_error(n_dims_per_spec(dims, bindings))

unknown_n_dims_indices(dims, bindings) ==
    {i \in 1..Len(dims) : n_dims(dims[i], bindings).k = "none"}

\* what a width contributes to the minimum rank
known_width(v) == IF v.k = "int" THEN v.t[1] ELSE 0

min_rank(dims, bindings) ==
    SumSeq([i \in 1..Len(dims) |-> known_width(n_dims(dims[i], bindings))])

\* faulty ranges, each slot starting where the one before it started
ranges_of_overlapping(y) ==
    [i \in 1..Len(y) |-> <<SumSeq(SubSeq(y, 1, i - 2)), SumSeq(SubSeq(y, 1, i))>>]

\* the ranges of the slots of widths y: ranges[i] = <<start, end>> of slot i
\* (0-based, end exclusive)
ranges_of(y) ==
    [i \in 1..Len(y) |-> <<SumSeq(SubSeq(y, 1, i - 1)), SumSeq(SubSeq(y, 1, i))>>]

\* a faulty matched_indices, without the comparison of the total with n
allocate_whatever_total(nd, mr, n) ==
    IF mr > n THEN [err |-> "RuntimeError", msg |-> "Expected rank at least", ranges |-> <<>>]
    ELSE IF Cardinality({i \in 1..Len(nd) : nd[i].k = "none"}) > 1
    THEN [err |-> "RuntimeError", msg |-> "Cannot determine matched indices", ranges |-> <<>>]
    ELSE [err |-> "", msg |-> "",
          ranges |-> ranges_of([i \in 1..Len(nd) |->
                                  IF nd[i].k = "none" THEN n - mr ELSE nd[i].t[1]])]

\* matched_indices once n_dims_per_spec (nd) and min_rank (mr) are computed;
\* msg is how the message of the RuntimeError begins
allocate(nd, mr, n) ==
    IF mr > n THEN [err |-> "RuntimeError", msg |-> "Expected rank at least", ranges |-> <<>>]
    ELSE IF Cardinality({i \in 1..Len(nd) : nd[i].k = "none"}) > 1
    THEN [err |-> "RuntimeError", msg |-> "Cannot determine matched indices", ranges |-> <<>>]
    ELSE IF SumSeq([i \in 1..Len(nd) |-> IF nd[i].k = "none" THEN n - mr ELSE nd[i].t[1]]) # n
    THEN [err |-> "RuntimeError", msg |-> "Expected rank", ranges |-> <<>>]
    ELSE [err |-> "", msg |-> "",
          ranges |-> ranges_of([i \in 1..Len(nd) |->
                                  IF nd[i].k = "none" THEN n - mr ELSE nd[i].t[1]])]

\* [err, ranges]
matched_indices(dims, bindings, n) ==
    allocate(n_dims_per_spec(dims, bindings), min_rank(dims, bindings), n)

spec_is_checkable(dims, bindings) ==
    IF Cardinality(unknown_n_dims_indices(dims, bindings)) > 1 THEN FALSE
    ELSE \A i \in 1..Len(dims) : dim_is_checkable(dims[i], DOMAIN bindings)

is_data_expr(dims) == Len(dims) = 1 /\ dims[1].value.op = "data"

spec_variables(dims) == UNION {variables(dims[i].value) : i \in 1..Len(dims)}

\* ------------------------------------------------------ the solver's helpers
\* an exception raised inside a helper: its kind, the variables it names, the
\* dimension index it names (-1 when it names none)
Err(kind, names, dim) == [kind |-> kind, names |-> names, dim |-> dim]
NoErr == Err("", {}, -1)

Range(s) == {s[i] : i \in 1..Len(s)}

\* a faulty _check_rank, which always takes min_rank for a lower bound
check_rank_at_least(got_shape, dims, bindings) ==
    Len(got_shape) < min_rank(dims, bindings)

\* _check_rank: TRUE when the rank error is raised
check_rank(got_shape, dims, bindings) ==
    LET expected_rank == min_rank(dims, bindings)
    IN  IF unknown_n_dims_indices(dims, bindings) # {}
        THEN Len(got_shape) < expected_rank
        ELSE Len(got_shape) # expected_rank

\* a faulty broadcast_values, which holds every value when 1 is expected
in_broadcast_values_either_way(g, expected_value) ==
    IF expected_value.k = "int"
    THEN g.k = "int" /\ (g.t[1] \in {expected_value.t[1], 1} \/ expected_value.t[1] = 1)
    ELSE /\ g.k = "tuple"
         /\ Len(g.t) = Len(expected_value.t)
         /\ \A i \in 1..Len(g.t) :
               g.t[i] \in {expected_value.t[i], 1} \/ expected_value.t[i] = 1

\* g in broadcast_values, g and expected_value being ShapeVariables
in_broadcast_values(g, expected_value) ==
    IF expected_value.k = "int"
    THEN g.k = "int" /\ g.t[1] \in {expected_value.t[1], 1}
    ELSE /\ g.k = "tuple"
         /\ Len(g.t) = Len(expected_value.t)
         /\ \A i \in 1..Len(g.t) : g.t[i] \in {expected_value.t[i], 1}

\* a faulty do_check, with the two branches on can_broadcast exchanged
do_check_fails_exchanged(d, g, expected_value) ==
    IF d.can_broadcast THEN g # expected_value
    ELSE ~in_broadcast_values(g, expected_value)

\* do_check: TRUE when the value error is raised
do_check_fails(d, g, expected_value) ==
    IF d.can_broadcast THEN ~in_broadcast_values(g, expected_value)
    ELSE g # expected_value

\* _check_dim_spec once the expression of d is evaluated
check_value(got_shape, d, expected_value, start_idx) ==
    LET names == variables(d.value)
        bad == {g_idx \in 1..Len(got_shape) :
                   do_check_fails(d, IntV(got_shape[g_idx]), expected_value)}
    IN  IF IsErr(expected_value) THEN Err(expected_value.k, names, -1)
        ELSE IF d.type = "variadic" /\ expected_value.k = "int"
             THEN Err("TypeMismatch", names, -1)
        ELSE IF d.type # "variadic" /\ expected_value.k = "tuple"
             THEN Err("TypeMismatch", names, -1)
        ELSE IF d.type = "repeated"
             THEN IF bad = {} THEN NoErr
                  ELSE Err("ValueMismatch", names,
                           start_idx + (CHOOSE i \in bad : \A j \in bad : i <= j) - 1)
        ELSE IF d.type = "variadic"
             THEN IF do_check_fails(d, TupV(got_shape), expected_value)
                  THEN Err("ValueMismatch", names, start_idx)
                  ELSE NoErr
        ELSE IF Len(got_shape) # 1 THEN Err("RuntimeError", names, -1)
        ELSE IF do_check_fails(d, IntV(got_shape[1]), expected_value)
             THEN Err("ValueMismatch", names, start_idx)
             ELSE NoErr

check_dim_spec(got_shape, d, bindings, start_idx) ==
    IF d.value.op = "none" THEN NoErr
    ELSE check_value(got_shape, d, eval(d.value, bindings), start_idx)

g_slice(got_shape, range) == SubSeq(got_shape, range[1] + 1, range[2])

\* a faulty iteration of the loop of _bind_shape, which binds the variable of
\* the slot again when it is bound already
bind_slot_again(d, g, start_idx, b) ==
    IF d.value.op # "var" \/ d.can_broadcast \/ NoneDim \in Range(g) \/ g = <<>>
    THEN [b |-> b, err |-> NoErr]
    ELSE [b |-> [y \in (DOMAIN b) \cup {d.value.x} |->
                   IF y # d.value.x THEN b[y]
                   ELSE IF d.type = "variadic" THEN TupV(g) ELSE IntV(g[1])],
          err |-> NoErr]

\* a faulty iteration of the loop of _bind_shape, which binds the variable of
\* a slot with `!` as that of a slot without
bind_slot_with_broadcast(d, g, start_idx, b) ==
    IF d.value.op # "var" \/ d.value.x \in DOMAIN b
    THEN [b |-> b, err |-> NoErr]
    ELSE IF NoneDim \in Range(g)
    THEN [b |-> b, err |-> Err("UnresolvedDimension", {d.value.x}, start_idx)]
    ELSE IF d.type = "variadic"
    THEN [b |-> setdefault(b, d.value.x, TupV(g)), err |-> NoErr]
    ELSE IF d.type = "repeated" /\ g # <<>>
    THEN [b |-> setdefault(b, d.value.x, IntV(g[1])), err |-> NoErr]
    ELSE IF d.type = "single" /\ Len(g) # 1
    THEN [b |-> b, err |-> Err("RuntimeError", {d.value.x}, -1)]
    ELSE IF d.type = "single"
    THEN [b |-> setdefault(b, d.value.x, IntV(g[1])), err |-> NoErr]
    ELSE [b |-> b, err |-> NoErr]

\* one iteration of the loop of _bind_shape, for slot d and its slice g of the
\* observed shape: [b, err]
bind_slot(d, g, start_idx, b) ==
    IF d.value.op # "var" \/ d.value.x \in DOMAIN b
    THEN [b |-> b, err |-> NoErr]
    ELSE IF NoneDim \in Range(g)
    THEN [b |-> b, err |-> Err("UnresolvedDimension", {d.value.x}, start_idx)]
    ELSE IF d.can_broadcast
    THEN [b |-> b, err |-> NoErr]
    ELSE IF d.type = "variadic"
    THEN [b |-> setdefault(b, d.value.x, TupV(g)), err |-> NoErr]
    ELSE IF d.type = "repeated" /\ g # <<>>
    THEN [b |-> setdefault(b, d.value.x, IntV(g[1])), err |-> NoErr]
    ELSE IF d.type = "single" /\ Len(g) # 1
    THEN [b |-> b, err |-> Err("RuntimeError", {d.value.x}, -1)]
    ELSE IF d.type = "single"
    THEN [b |-> setdefault(b, d.value.x, IntV(g[1])), err |-> NoErr]
    ELSE [b |-> b, err |-> NoErr]

\* the loop of _bind_shape from slot k on: [b, err]
RECURSIVE bind_slots(_, _, _, _, _)
\* the loop goes on after the iteration for slot k gave r
bind_next(got_shape, dims, ranges, k, r) ==
    IF r.err.kind # "" THEN r
    ELSE bind_slots(got_shape, dims, ranges, k + 1, r.b)

bind_slots(got_shape, dims, ranges, k, b) ==
    IF k > Len(dims) THEN [b |-> b, err |-> NoErr]
    ELSE bind_next(got_shape, dims, ranges, k,
                   bind_slot(dims[k], g_slice(got_shape, ranges[k]), ranges[k][1], b))

\* _bind_shape once the widths (their exception e) and matched_indices (m) are
\* computed
bind_matched(got_shape, dims, bindings, e, m) ==
    IF IsErr(e) THEN [b |-> bindings, err |-> Err(e.k, {}, -1)]
    ELSE IF m.err # "" THEN [b |-> bindings, err |-> Err(m.err, {}, -1)]
    ELSE bind_slots(got_shape, dims, m.ranges, 1, bindings)

\* _bind_shape: [b, err], b the bindings when it returns or raises
bind_shape(got_shape, dims, bindings) ==
    bind_matched(got_shape, dims, bindings, n_dims_error(dims, bindings),
                 matched_indices(dims, bindings, Len(got_shape)))

\* a faulty iteration of the loop of _check_shape, which looks for an unknown
\* dimension before it skips the slot without expression
check_slot_none_first(d, g, start_idx, end_idx, bindings) ==
    IF d.type = "repeated" /\ start_idx = end_idx THEN NoErr
    ELSE IF NoneDim \in Range(g)
    THEN Err("UnresolvedDimension", variables(d.value), start_idx)
    ELSE IF d.value.op = "none" THEN NoErr
    ELSE check_dim_spec(g, d, bindings, start_idx)

\* a faulty iteration of the loop of _check_shape, which does not skip the
\* empty REPEATED slot
check_slot_empty_repeated(d, g, start_idx, end_idx, bindings) ==
    IF d.value.op = "none" THEN NoErr
    ELSE IF NoneDim \in Range(g)
    THEN Err("UnresolvedDimension", variables(d.value), start_idx)
    ELSE check_dim_spec(g, d, bindings, start_idx)

\* one iteration of the loop of _check_shape, for slot d and its slice g
check_slot(d, g, start_idx, end_idx, bindings) ==
    IF d.value.op = "none" THEN NoErr
    ELSE IF d.type = "repeated" /\ start_idx = end_idx THEN NoErr
    ELSE IF NoneDim \in Range(g)
    THEN Err("UnresolvedDimension", variables(d.value), start_idx)
    ELSE check_dim_spec(g, d, bindings, start_idx)

\* the loop of _check_shape from slot k on
RECURSIVE check_slots(_, _, _, _, _)
\* the loop goes on after the iteration for slot k gave e
check_next(got_shape, dims, ranges, k, bindings, e) ==
    IF e.kind # "" THEN e
    ELSE check_slots(got_shape, dims, ranges, k + 1, bindings)

check_slots(got_shape, dims, ranges, k, bindings) ==
    IF k > Len(dims) THEN NoErr
    ELSE check_next(got_shape, dims, ranges, k, bindings,
                    check_slot(dims[k], g_slice(got_shape, ranges[k]),
                               ranges[k][1], ranges[k][2], bindings))

\* _check_shape once the widths (their exception e) and matched_indices (m) are
\* computed
check_matched(got_shape, dims, bindings, e, m) ==
    IF IsErr(e) THEN Err(e.k, {}, -1)
    ELSE IF check_rank(got_shape, dims, bindings) THEN Err("RankMismatch", {}, -1)
    ELSE IF Cardinality(unknown_n_dims_indices(dims, bindings)) > 1
    THEN Err("RuntimeError", {}, -1)
    ELSE IF m.err # "" THEN Err(m.err, {}, -1)
    ELSE check_slots(got_shape, dims, m.ranges, 1, bindings)

check_shape(got_shape, dims, bindings) ==
    check_matched(got_shape, dims, bindings, n_dims_error(dims, bindings),
                  matched_indices(dims, bindings, Len(got_shape)))

\* the variables referenced by the VARIADIC slots (variadic = TRUE) or by the
\* other slots (variadic = FALSE) of the specs of ts
slot_variables(ts, variadic) ==
    UNION {UNION {variables(ts[n].spec[i].value) :
                    i \in {i \in 1..Len(ts[n].spec) :
                             (ts[n].spec[i].type = "variadic") = variadic}} :
             n \in 1..Len(ts)}

\* a faulty _check_variable_types, which leaves the pre-bindings out
check_variable_types_of_specs(ts, bindings) ==
    slot_variables(ts, FALSE) \cap slot_variables(ts, TRUE)

\* a faulty _check_variable_types, which takes every pre-bound name for an
\* integer
check_variable_types_all_int(ts, bindings) ==
    ((DOMAIN bindings) \cup slot_variables(ts, FALSE)) \cap slot_variables(ts, TRUE)

\* _check_variable_types: the names found in both kinds
check_variable_types(ts, bindings) ==
    LET int_vars == {k \in DOMAIN bindings : bindings[k].k = "int"}
                        \cup slot_variables(ts, FALSE)
        tuple_vars == {k \in DOMAIN bindings : bindings[k].k # "int"}
                        \cup slot_variables(ts, TRUE)
    IN  int_vars \cap tuple_vars

\* a faulty name of the nested entry k of the data object named name
child_name_bare(name, k) == k

\* the name of the nested entry k of the data object named name
child_name(name, k) == name \o "." \o k

\* _get_shapes for one argument a = [name, val, shape, spec, children]; val is
\* "tensor" (the value has a shape), "none" (the value is None) or "data" (the
\* value has a _get_shapes method, which gives children): [err, entry, out],
\* entry being the name that the exception names
RECURSIVE get_shapes(_)
RECURSIVE get_children(_, _, _, _)
\* the comprehension goes on after the nested entry k gave g
get_children_next(cs, name, k, acc, g) ==
    IF g.err # "" THEN g
    ELSE get_children(cs, name, k + 1, acc \o g.out)

\* the comprehension over x._get_shapes().items() from the nested entry k on
get_children(cs, name, k, acc) ==
    IF k > Len(cs) THEN [err |-> "", entry |-> "", out |-> acc]
    ELSE get_children_next(cs, name, k, acc,
                           get_shapes([cs[k] EXCEPT !.name = child_name(name, cs[k].name)]))

get_shapes(a) ==
    IF is_data_expr(a.spec)
    THEN IF a.val # "data"
         THEN [err |-> "MissingCapability", entry |-> a.name, out |-> <<>>]
         ELSE get_children(a.children, a.name, 1, <<>>)
    ELSE IF a.val = "tensor"
    THEN IF \E i \in 1..Len(a.spec) : a.spec[i].value.op = "data"
         THEN [err |-> "DataInTensorSpec", entry |-> a.name, out |-> <<>>]
         ELSE [err |-> "", entry |-> "",
               out |-> <<[name |-> a.name, shape |-> a.shape, spec |-> a.spec]>>]
    ELSE [err |-> "", entry |-> "", out |-> <<>>]

\* the loop of _get_tensors_and_bindings over args from argument k on
RECURSIVE get_tensors(_, _, _)
get_tensors_next(as, k, acc, g) ==
    IF g.err # "" THEN [err |-> g.err, entry |-> g.entry, tensors |-> <<>>]
    ELSE get_tensors(as, k + 1, acc \o g.out)

\* a spec given as text that parse_shape_spec refuses
Unparsable == <<[value |-> NoExpr, type |-> "unparsable", can_broadcast |-> FALSE]>>

get_tensors(as, k, acc) ==
    IF k > Len(as) THEN [err |-> "", entry |-> "", tensors |-> acc]
    ELSE IF as[k].spec = Unparsable
    THEN [err |-> "ParseError", entry |-> "", tensors |-> <<>>]
    ELSE get_tensors_next(as, k, acc, get_shapes(as[k]))

\* --------------------------------------------------- outcomes of check_shapes
Running == [status |-> "running", kind |-> "", entries |-> {}, names |-> {}, dim |-> -1, b |-> EmptyB]
Returned(b) == [status |-> "ok", kind |-> "", entries |-> {}, names |-> {}, dim |-> -1, b |-> b]
Raised(kind, entries, names, dim) ==
    [status |-> "fail", kind |-> kind, entries |-> entries, names |-> names, dim |-> dim, b |-> EmptyB]

\* ------------------------------------------------------------------- inputs
single(e) == DimSpec(e, "single", FALSE)
repeated(e) == DimSpec(e, "repeated", FALSE)
variadic(e) == DimSpec(e, "variadic", FALSE)
can_broadcast(d) == [d EXCEPT !.can_broadcast = TRUE]

Vi == Variable("i")
Vj == Variable("j")
Vx == Variable("x")
Vy == Variable("y")

DimVals == (1..MaxDim) \cup {NoneDim}
Shapes == UNION {[1..n -> DimVals] : n \in 0..MaxRank}

\* the specs of the single-entry calls
SpecCat ==
    { <<>>,
      <<single(Vi)>>,
      <<single(Vi), single(Vj)>>,
      <<single(Vi), single(Vi)>>,
      <<single(Vi), single(Literal(2))>>,
      <<single(Vi), single(AddOp(Vi, Literal(1)))>>,
      <<single(Vi), single(SubOp(Vj, Vi))>>,
      <<repeated(Vi)>>,
      <<repeated(Vi), single(Vj)>>,
      <<single(Vi), repeated(Vj)>>,
      <<repeated(Literal(2))>>,
      <<repeated(AddOp(Vi, Literal(1)))>>,
      <<repeated(Vi), repeated(Vj)>>,
      <<variadic(Vx)>>,
      <<variadic(Vi)>>,
      <<variadic(Vx), single(Vi)>>,
      <<variadic(Vx), variadic(Vx)>>,
      <<variadic(Vx), variadic(Vy)>>,
      <<variadic(Vx), repeated(Vi)>>,
      <<variadic(ConcatOp(Vx, Vx))>>,
      <<variadic(BroadcastOp(Vx, Vy))>>,
      <<variadic(AddOp(Vx, Vy))>>,
      <<variadic(Literal(2))>>,
      <<single(NoExpr)>>,
      <<repeated(NoExpr)>>,
      <<single(Vi), repeated(NoExpr)>>,
      <<variadic(NoExpr), single(Vi)>>,
      <<single(Vi), can_broadcast(single(Vj))>>,
      <<single(Vi), can_broadcast(single(Vi))>>,
      <<can_broadcast(variadic(Vx))>>,
      <<single(Vi), can_broadcast(repeated(Vj))>>,
      <<can_broadcast(single(AddOp(Vj, Literal(1))))>>,
      <<single(Vi), single(DataExpr)>>,
      <<single(DataExpr)>> }

\* every spec made of integer literals, with or without `!`
LiteralDims == {DimSpec(Literal(n), "single", cb) : n \in 1..MaxDim, cb \in BOOLEAN}
LiteralSpecs == UNION {[1..n -> LiteralDims] : n \in 0..MaxRank}

\* the pre-bindings of the single-entry calls
PreCat ==
    { EmptyB,
      "i" :> IntV(2),
      "j" :> IntV(1),
      ("i" :> IntV(1)) @@ ("j" :> IntV(2)),
      "x" :> TupV(<<2>>),
      ("x" :> TupV(<<1, 2>>)) @@ ("y" :> TupV(<<2>>)),
      "i" :> TupV(<<2>>),
      "k" :> IntV(5) }

Tensor(shape, spec) == [val |-> "tensor", shape |-> shape, spec |-> spec, children |-> <<>>]
Absent(spec) == [val |-> "none", shape |-> <<>>, spec |-> spec, children |-> <<>>]

\* the entries of the calls with several entries
EntryCat ==
    { Tensor(<<2, 1>>, <<single(Vi), single(Vj)>>),
      Tensor(<<2, 2>>, <<single(Vi), single(Vj)>>),
      Tensor(<<2>>, <<single(Vi), single(Vj)>>),
      Tensor(<<2, 1>>, <<variadic(Vx)>>),
      Tensor(<<2, 1, 2>>, <<variadic(Vx), single(Vi)>>),
      Tensor(<<2, 2>>, <<variadic(Vi)>>),
      Tensor(<<>>, <<repeated(Vi)>>),
      Tensor(<<2, 2>>, <<repeated(Vi)>>),
      Tensor(<<2, 1>>, <<single(Vi), can_broadcast(single(Vj))>>),
      Tensor(<<2, 1, 2, 1>>, <<variadic(Vx), variadic(Vy)>>),
      Tensor(<<2, 1>>, <<variadic(Vy)>>),
      Tensor(<<2, 3>>, <<single(Vi), single(AddOp(Vj, Literal(1)))>>),
      Tensor(<<2, NoneDim>>, <<single(Vi), single(NoExpr)>>),
      Tensor(<<2, 1, 2>>, <<can_broadcast(variadic(Vy)), single(Vi)>>),
      Tensor(<<2>>, <<can_broadcast(variadic(Vy)), single(Vi)>>),
      Absent(<<single(Vi), single(Vj)>>),
      Absent(<<single(DataExpr)>>) }

MultiPre == { EmptyB, "j" :> IntV(2), "x" :> TupV(<<2, 1>>) }

ArgNames == <<"arg0", "arg1", "arg2", "arg3">>
Named(es) == [n \in 1..Len(es) |->
                [name |-> ArgNames[n], val |-> es[n].val, shape |-> es[n].shape,
                 spec |-> es[n].spec, children |-> es[n].children]]

\* the calls with one entry: a spec of the catalogue under some pre-bindings
SingleCall(a, kw) ==
    \E sh \in Shapes, sp \in SpecCat, pre \in PreCat :
        a = Named(<<Tensor(sh, sp)>>) /\ kw = pre

\* the calls with one entry whose spec is made of literals
LiteralCall(a, kw) ==
    \E sh \in Shapes, sp \in LiteralSpecs :
        a = Named(<<Tensor(sh, sp)>>) /\ kw = EmptyB

\* the calls with up to MaxEntries entries
MultiCall(a, kw) ==
    \E n \in 0..MaxEntries : \E es \in [1..n -> EntryCat], pre \in MultiPre :
        a = Named(es) /\ kw = pre

\* the most fields of a data object
MaxFields == 2

\* a data object, whose _get_shapes gives the nested entries children
Data(children) ==
    [val |-> "data", shape |-> <<>>, spec |-> <<single(DataExpr)>>, children |-> children]

FieldNames == <<"x", "y", "z", "w">>
Fields(es) == [n \in 1..Len(es) |->
                 [name |-> FieldNames[n], val |-> es[n].val, shape |-> es[n].shape,
                  spec |-> es[n].spec, children |-> es[n].children]]

\* the fields of the data objects that are not data objects themselves
LeafCat ==
    { Tensor(<<2, 1>>, <<single(Vi), single(Vj)>>),
      Tensor(<<1>>, <<single(Vi)>>),
      Tensor(<<2, 1>>, <<single(Vi), can_broadcast(single(Vj))>>),
      Tensor(<<2>>, <<single(DataExpr)>>),
      Absent(<<single(Vi), single(Vj)>>),
      Absent(<<single(DataExpr)>>) }

\* the data objects that are fields of data objects
InnerCat == {Data(Fields(cs)) : cs \in UNION {[1..n -> LeafCat] : n \in 0..1}}

DataCat ==
    {Data(Fields(cs)) : cs \in UNION {[1..n -> LeafCat \cup InnerCat] : n \in 0..MaxFields}}

\* the ordinary entries next to a data object
OtherCat ==
    { Tensor(<<2, 2>>, <<single(Vi), single(Vj)>>),
      Tensor(<<2, 1>>, <<variadic(Vx)>>) }

\* the calls with an entry whose spec is `$`, alone or before an ordinary entry
DataCall(a, kw) ==
    \E d \in DataCat \cup {Tensor(<<2>>, <<single(DataExpr)>>), Absent(<<single(DataExpr)>>)},
       pre \in {EmptyB, "j" :> IntV(2)} :
        /\ \/ a = Named(<<d>>)
           \/ \E o \in OtherCat : a = Named(<<d, o>>)
        /\ kw = pre

\* -------------------------------------------------------------------- state
VARIABLES
    args,           \* the (value, spec) arguments of the running call
    kwargs,         \* its keyword pre-bindings
    tensors,        \* check_shapes: tensors
    bindings,       \* check_shapes: bindings
    checked_names,  \* check_shapes: checked_names
    binded_names,   \* check_shapes: binded_names
    pass_no,        \* the pass of the fixed-point loop, 1-based
    idx,            \* the position of the inner loop in tensors, 1-based
    bindings_len,   \* check_shapes: bindings_len
    pc,             \* where the call is
    result,         \* what the call returned or raised
    call,           \* 1 for the first call, 2 for the follow-up call
    mode,           \* how the follow-up call was derived from the first
    first           \* the arguments and the outcome of the first call

VARIABLES
    broadcast_call, \* BroadcastOp.broadcast: its arguments, its locals, its outcome
    EINCHECK_ENABLE_CHECKS, \* contexts.py: the module's flag
    contexts,       \* per thread, the _set_enable_checks generators of its open
                    \* `with` statements, the innermost last
    performed,      \* per thread, what its last call of check_shapes did
    text_call,      \* a spec, its str() and what the parser makes of it
    cached_foo,     \* a ResizeableLruCache around foo
    FUNC_CALLS,     \* the arguments foo itself ran with
    used,           \* the arguments cached_foo was called with since it was last emptied
    returned,       \* what the last operation on cached_foo did
    cached_parse,   \* the ResizeableLruCache around parse_shape_spec
    heap,           \* the ShapeSpec objects alive, each with its memo
    shape_call,     \* a call of check_shapes as a user of ShapeSpec objects
    dim_call,       \* a DimSpec, the method called on it and what the method gave
    indices_call,   \* a ShapeSpec, the arguments of matched_indices and what it gave
    get_wrapper,    \* the closure of a call of _get_wrapper: the specs of a decorator
    inners,         \* what each application of the decorator to a function gave
    inner_call      \* a call of a decorated function

\* the state of check_shapes
solver_vars == <<args, kwargs, tensors, bindings, checked_names, binded_names,
                 pass_no, idx, bindings_len, pc, result, call, mode, first>>

\* the state of the rest of the library
broadcast_vars == <<broadcast_call>>
context_vars == <<EINCHECK_ENABLE_CHECKS, contexts, performed>>
text_vars == <<text_call>>
lru_vars == <<cached_foo, FUNC_CALLS, used, returned>>
parser_vars == <<cached_parse, heap, shape_call>>
cache_vars == <<lru_vars, parser_vars>>
object_vars == <<dim_call, indices_call>>
decorator_vars == <<get_wrapper, inners, inner_call>>
other_vars == <<broadcast_vars, context_vars, text_vars, cache_vars, object_vars, decorator_vars>>
outside_broadcast == <<solver_vars, context_vars, text_vars, cache_vars, object_vars, decorator_vars>>
outside_contexts == <<broadcast_vars, text_vars, cache_vars, object_vars, decorator_vars>>
outside_text == <<solver_vars, broadcast_vars, context_vars, cache_vars, object_vars, decorator_vars>>
outside_lru == <<solver_vars, broadcast_vars, context_vars, text_vars, parser_vars, object_vars, decorator_vars>>
outside_parser == <<solver_vars, broadcast_vars, context_vars, text_vars, lru_vars, object_vars, decorator_vars>>
outside_objects == <<solver_vars, broadcast_vars, context_vars, text_vars, cache_vars, decorator_vars>>
outside_decorators == <<solver_vars, broadcast_vars, context_vars, text_vars, cache_vars, object_vars>>
\* a decorated function runs check_shapes
outside_inner == <<broadcast_vars, context_vars, text_vars, cache_vars, object_vars>>

vars == <<solver_vars, other_vars>>

\* args: the two tuples passed; x, y, idx, out: the locals; err: the position
\* and the two values that the exception names
NoBroadcast ==
    [pc |-> "idle", args |-> <<>>, x |-> <<>>, y |-> <<>>, idx |-> 0, out |-> <<>>,
     err |-> <<>>]

MaxThreads == 2
Threads == 1..MaxThreads
MainThread == 1

\* no scope is open and the flag has the value the module gives it
ContextsIdle ==
    /\ EINCHECK_ENABLE_CHECKS = TRUE
    /\ contexts = [t \in Threads |-> <<>>]
    /\ performed = [t \in Threads |-> "none"]

BroadcastIdle == broadcast_call = NoBroadcast

NoText == [pc |-> "idle", of |-> "", spec |-> <<>>, text |-> <<>>, stripped |-> FALSE,
           parsed |-> [ok |-> FALSE, dims |-> <<>>]]
TextIdle == text_call = NoText

\* maxsize of a cache: a number, or None for a cache without bound
MaxSize(n) == [bounded |-> TRUE, n |-> n]
NoMaxSize == [bounded |-> FALSE, n |-> 0]

\* functools.lru_cache(maxsize): nothing cached, nothing counted. `order`
\* holds the cached calls, the least recently used first.
lru_cache(maxsize) == [maxsize |-> maxsize, order |-> <<>>, hits |-> 0, misses |-> 0]

NoReturn == [op |-> "none", arg |-> <<>>, hit |-> FALSE, value |-> <<>>]
LruIdle ==
    /\ cached_foo = lru_cache(NoMaxSize)
    /\ FUNC_CALLS = <<>>
    /\ used = <<>>
    /\ returned = NoReturn

\* the memo of a ShapeSpec: None, or the key of some bindings and the indices
\* found for them
NoMemo == [set |-> FALSE, key |-> EmptyB, out |-> {}]
NoHeap == [id \in {} |-> NoMemo]
NoAnswer == [id |-> 0, text |-> <<>>, dims |-> <<>>, bindings |-> EmptyB, out |-> {},
             hit |-> FALSE]
NoShapeCall == [pc |-> "idle", entries |-> <<>>, bindings |-> EmptyB, answer |-> NoAnswer]
ParserIdle ==
    /\ cached_parse = lru_cache(NoMaxSize)
    /\ heap = NoHeap
    /\ shape_call = NoShapeCall

CacheIdle == LruIdle /\ ParserIdle

NoDimCall == [pc |-> "idle", d |-> DimSpec(NoExpr, "single", FALSE), values |-> {},
              op |-> "", out |-> [ok |-> TRUE, is |-> FALSE,
                                  d |-> DimSpec(NoExpr, "single", FALSE)]]
NoIndicesCall == [pc |-> "idle", dims |-> <<>>, bindings |-> EmptyB, n_dims |-> 0,
                  out |-> [err |-> "", msg |-> "", ranges |-> <<>>]]
ObjectsIdle ==
    /\ dim_call = NoDimCall
    /\ indices_call = NoIndicesCall

\* a decorator without specs, which was applied to nothing
NoWrapper == [input_arg_shapes |-> <<>>, input_kwarg_shapes |-> <<>>, output_shapes |-> <<>>,
              given |-> <<>>]
NoInnerCall == [pc |-> "idle", inner |-> 0, arguments |-> <<>>, events |-> <<>>,
                updated_spec |-> EmptyB, out |-> <<>>]
DecoratorsIdle ==
    /\ get_wrapper = NoWrapper
    /\ inners = <<>>
    /\ inner_call = NoInnerCall

\* nothing but check_shapes is running
OthersIdle ==
    /\ BroadcastIdle
    /\ ContextsIdle
    /\ TextIdle
    /\ ObjectsIdle
    /\ DecoratorsIdle
    /\ CacheIdle

NoCall == [args |-> <<>>, kwargs |-> EmptyB, result |-> Running]

Init ==
    /\ \/ SingleCall(args, kwargs)
       \/ LiteralCall(args, kwargs)
       \/ MultiCall(args, kwargs)
    /\ tensors = <<>>
    /\ bindings = EmptyB
    /\ checked_names = {}
    /\ binded_names = {}
    /\ pass_no = 0
    /\ idx = 0
    /\ bindings_len = 0
    /\ pc = "start"
    /\ result = Running
    /\ call = 1
    /\ mode = "first"
    /\ first = NoCall
    /\ OthersIdle

\* ------------------------------------------------------------------ actions
Raise(kind, entries, names, dim) ==
    /\ result' = Raised(kind, entries, names, dim)
    /\ pc' = "done"

\* the inner loop goes to the next tensor, or the pass ends
Continue ==
    IF idx < Len(tensors)
    THEN idx' = idx + 1 /\ pc' = "visit"
    ELSE idx' = idx /\ pc' = "endpass"

should_do_checks == EINCHECK_ENABLE_CHECKS

\* check_shapes up to the fixed-point loop, g being what
\* _get_tensors_and_bindings gave and both what _check_variable_types found
StartWith(g, kw, both) ==
    IF g.err # ""
    THEN /\ Raise(g.err, {g.entry}, {}, -1)
         /\ UNCHANGED <<tensors, bindings, pass_no, idx, bindings_len>>
    ELSE /\ tensors' = g.tensors
         /\ bindings' = kw
         /\ IF both # {}
            THEN /\ Raise("KindConflict", {}, both, -1)
                 /\ UNCHANGED <<pass_no, idx, bindings_len>>
            ELSE IF g.tensors = <<>>
            THEN /\ result' = Returned(kw)
                 /\ pc' = "done"
                 /\ UNCHANGED <<pass_no, idx, bindings_len>>
            ELSE /\ pass_no' = 1
                 /\ idx' = 1
                 /\ bindings_len' = Cardinality(DOMAIN kw)
                 /\ pc' = "visit"
                 /\ UNCHANGED result

\* check_shapes up to the fixed-point loop: the arguments are gathered, the
\* kinds of the variables are checked, a call without tensors returns
Start ==
    /\ pc = "start"
    /\ UNCHANGED other_vars
    /\ IF ~should_do_checks
       THEN /\ result' = Returned(EmptyB)
            /\ pc' = "done"
            /\ UNCHANGED <<tensors, bindings, pass_no, idx, bindings_len>>
       ELSE StartWith(get_tensors(args, 1, <<>>), kwargs,
                      check_variable_types(get_tensors(args, 1, <<>>).tensors, kwargs))
    /\ UNCHANGED <<args, kwargs, checked_names, binded_names, call, mode, first>>

\* the inner loop for tensor t up to its binding, e being the exception of its
\* widths and r what _bind_shape gives
VisitTensor(t, e, r) ==
    IF t.name \in checked_names
    THEN Continue /\ UNCHANGED <<bindings, binded_names, result>>
    ELSE IF IsErr(e)
    THEN Raise(e.k, {t.name}, {}, -1) /\ UNCHANGED <<bindings, binded_names, idx>>
    ELSE IF Cardinality(unknown_n_dims_indices(t.spec, bindings)) > 1
    THEN Continue /\ UNCHANGED <<bindings, binded_names, result>>
    ELSE IF t.name \in binded_names
    THEN pc' = "check" /\ UNCHANGED <<bindings, binded_names, result, idx>>
    ELSE IF check_rank(t.shape, t.spec, bindings)
    THEN Raise("RankMismatch", {t.name}, {}, -1)
         /\ UNCHANGED <<bindings, binded_names, idx>>
    ELSE IF r.err.kind # ""
    THEN /\ Raise(r.err.kind, {t.name}, r.err.names, r.err.dim)
         /\ bindings' = r.b
         /\ UNCHANGED <<binded_names, idx>>
    ELSE /\ bindings' = r.b
         /\ binded_names' = binded_names \cup {t.name}
         /\ pc' = "check"
         /\ UNCHANGED <<result, idx>>

\* one tensor of the inner loop, up to its binding: it is skipped when it is
\* checked already or has several slots of unknown width; a tensor that is not
\* bound yet has its rank checked and its variables bound
Visit ==
    /\ pc = "visit"
    /\ UNCHANGED other_vars
    /\ VisitTensor(tensors[idx], n_dims_error(tensors[idx].spec, bindings),
                   bind_shape(tensors[idx].shape, tensors[idx].spec, bindings))
    /\ UNCHANGED <<args, kwargs, tensors, checked_names, pass_no, bindings_len,
                   call, mode, first>>

\* the inner loop for the bound tensor t, e being the exception of its widths
\* and c what _check_shape gives
CheckTensor(t, e, c) ==
    IF IsErr(e)
    THEN Raise(e.k, {t.name}, {}, -1) /\ UNCHANGED <<checked_names, idx>>
    ELSE IF ~spec_is_checkable(t.spec, bindings)
    THEN Continue /\ UNCHANGED <<checked_names, result>>
    ELSE IF c.kind # ""
    THEN Raise(c.kind, {t.name}, c.names, c.dim) /\ UNCHANGED <<checked_names, idx>>
    ELSE /\ checked_names' = checked_names \cup {t.name}
         /\ Continue
         /\ UNCHANGED result

\* the rest of the inner loop for a bound tensor: when its spec is checkable
\* its shape is checked against the bindings
Check ==
    /\ pc = "check"
    /\ UNCHANGED other_vars
    /\ CheckTensor(tensors[idx], n_dims_error(tensors[idx].spec, bindings),
                   check_shape(tensors[idx].shape, tensors[idx].spec, bindings))
    /\ UNCHANGED <<args, kwargs, tensors, bindings, binded_names, pass_no,
                   bindings_len, call, mode, first>>

\* a faulty end of a pass, for a loop of one pass less
EndPass_one_pass_less ==
    /\ pc = "endpass"
    /\ UNCHANGED other_vars
    /\ IF Cardinality(DOMAIN bindings) = bindings_len \/ pass_no >= Len(tensors) - 1
       THEN pc' = "residue" /\ UNCHANGED <<pass_no, idx, bindings_len>>
       ELSE /\ pass_no' = pass_no + 1
            /\ idx' = 1
            /\ bindings_len' = Cardinality(DOMAIN bindings)
            /\ pc' = "visit"
    /\ UNCHANGED <<args, kwargs, tensors, bindings, checked_names, binded_names,
                   result, call, mode, first>>

\* the end of a pass: the loop stops when the pass bound nothing or was the
\* last of its len(tensors) passes
EndPass ==
    /\ pc = "endpass"
    /\ UNCHANGED other_vars
    /\ IF Cardinality(DOMAIN bindings) = bindings_len \/ pass_no = Len(tensors)
       THEN pc' = "residue" /\ UNCHANGED <<pass_no, idx, bindings_len>>
       ELSE /\ pass_no' = pass_no + 1
            /\ idx' = 1
            /\ bindings_len' = Cardinality(DOMAIN bindings)
            /\ pc' = "visit"
    /\ UNCHANGED <<args, kwargs, tensors, bindings, checked_names, binded_names,
                   result, call, mode, first>>

tensor_names == {tensors[n].name : n \in 1..Len(tensors)}

\* a faulty list of the missing variables, without those that are bound
missing_variables_unbound(unchecked) ==
    UNION {spec_variables(tensors[n].spec) \ DOMAIN bindings :
             n \in {n \in 1..Len(tensors) : tensors[n].name \in unchecked}}

\* the variables of the specs of the tensors named in unchecked
missing_variables(unchecked) ==
    UNION {spec_variables(tensors[n].spec) :
             n \in {n \in 1..Len(tensors) : tensors[n].name \in unchecked}}

\* a faulty end of check_shapes, which reports the unchecked tensors first
FinishWith_unchecked_first(unbound, unchecked) ==
    IF unchecked # {}
    THEN Raise("Unchecked", unchecked, missing_variables(unchecked), -1)
    ELSE IF unbound # {} THEN Raise("Unbound", unbound, {}, -1)
    ELSE result' = Returned(bindings) /\ pc' = "done"

\* a faulty end of check_shapes, which returns once every tensor is bound
FinishWith_bound_only(unbound, unchecked) ==
    IF unbound # {} THEN Raise("Unbound", unbound, {}, -1)
    ELSE result' = Returned(bindings) /\ pc' = "done"

\* check_shapes after the loop, unbound and unchecked being the names of the
\* tensors that were not bound and not checked
FinishWith(unbound, unchecked) ==
    IF unbound # {} THEN Raise("Unbound", unbound, {}, -1)
    ELSE IF unchecked # {}
    THEN Raise("Unchecked", unchecked, missing_variables(unchecked), -1)
    ELSE result' = Returned(bindings) /\ pc' = "done"

\* after the loop: the unbound and the unchecked tensors are reported, else the
\* bindings are returned
Finish ==
    /\ pc = "residue"
    /\ UNCHANGED other_vars
    /\ FinishWith(tensor_names \ binded_names, tensor_names \ checked_names)
    /\ UNCHANGED <<args, kwargs, tensors, bindings, checked_names, binded_names,
                   pass_no, idx, bindings_len, call, mode, first>>

\* a follow-up call starts
Again(as, kw, how) ==
    /\ pc = "done"
    /\ UNCHANGED other_vars
    /\ call = 1
    /\ first' = [args |-> args, kwargs |-> kwargs, result |-> result]
    /\ args' = as
    /\ kwargs' = kw
    /\ mode' = how
    /\ call' = 2
    /\ tensors' = <<>>
    /\ bindings' = EmptyB
    /\ checked_names' = {}
    /\ binded_names' = {}
    /\ pass_no' = 0
    /\ idx' = 0
    /\ bindings_len' = 0
    /\ pc' = "start"
    /\ result' = Running

\* check_shapes is called again with the bindings it returned as pre-bindings
CallWithReturned ==
    /\ result.status = "ok"
    /\ Again(args,
             [x \in (DOMAIN kwargs) \cup (DOMAIN result.b) |->
                 IF x \in DOMAIN result.b THEN result.b[x] ELSE kwargs[x]],
             "returned")

present(a) == a.val # "none"

\* check_shapes is called again without the arguments whose value is None
CallWithoutNone ==
    /\ \E n \in 1..Len(args) : ~present(args[n])
    /\ Again(SelectSeq(args, present), kwargs, "without_none")

\* the nested entries of the data object a as ordinary entries
AsEntries(a) ==
    [n \in 1..Len(a.children) |->
        [a.children[n] EXCEPT !.name = a.name \o "." \o a.children[n].name]]

RECURSIVE Flattened(_)
Flattened(as) ==
    IF as = <<>> THEN <<>>
    ELSE (IF Head(as).val = "data" /\ is_data_expr(Head(as).spec)
          THEN AsEntries(Head(as)) ELSE <<Head(as)>>) \o Flattened(Tail(as))

\* check_shapes is called again with the nested entries of each data object
\* in the place of the data object
CallFlattened ==
    /\ \E n \in 1..Len(args) : args[n].val = "data" /\ is_data_expr(args[n].spec)
    /\ Again(Flattened(args), kwargs, "flattened")

Next ==
    \/ Start
    \/ Visit
    \/ Check
    \/ EndPass
    \/ Finish
    \/ CallWithReturned
    \/ CallWithoutNone

Spec == Init /\ [][Next]_vars

\* the calls on data objects
InitData ==
    /\ DataCall(args, kwargs)
    /\ tensors = <<>>
    /\ bindings = EmptyB
    /\ checked_names = {}
    /\ binded_names = {}
    /\ pass_no = 0
    /\ idx = 0
    /\ bindings_len = 0
    /\ pc = "start"
    /\ result = Running
    /\ call = 1
    /\ mode = "first"
    /\ first = NoCall
    /\ OthersIdle

NextData ==
    \/ Start
    \/ Visit
    \/ Check
    \/ EndPass
    \/ Finish
    \/ CallFlattened

SpecData == InitData /\ [][NextData]_vars

Vz == Variable("z")

\* the entries of the calls whose entries need each other's variables
OrderCat ==
    { Tensor(<<2, 1>>, <<single(Vi), single(Vj)>>),
      Tensor(<<2, 2>>, <<single(Vi), single(Vj)>>),
      Tensor(<<2, 1>>, <<variadic(Vx)>>),
      Tensor(<<2, 1, 2>>, <<variadic(Vx), single(Vi)>>),
      Tensor(<<2, 1, 2, 1>>, <<variadic(Vx), variadic(Vy)>>),
      Tensor(<<2, 1>>, <<variadic(Vy)>>),
      Tensor(<<2, 1, 2>>, <<variadic(Vy), variadic(Vz)>>),
      Tensor(<<2, 2>>, <<repeated(Vi)>>),
      Tensor(<<2, 1>>, <<single(Vi), can_broadcast(single(Vj))>>),
      Tensor(<<2, 3>>, <<single(Vi), single(AddOp(Vj, Literal(1)))>>),
      Tensor(<<2, NoneDim>>, <<single(Vi), single(Vj)>>),
      Tensor(<<2>>, <<can_broadcast(variadic(Vy)), single(Vi)>>),
      Absent(<<single(Vi), single(Vj)>>) }

\* the calls with up to MaxEntries entries that need each other's variables
InitOrder ==
    /\ \E n \in 0..MaxEntries : \E es \in [1..n -> OrderCat], pre \in MultiPre :
          args = Named(es) /\ kwargs = pre
    /\ tensors = <<>>
    /\ bindings = EmptyB
    /\ checked_names = {}
    /\ binded_names = {}
    /\ pass_no = 0
    /\ idx = 0
    /\ bindings_len = 0
    /\ pc = "start"
    /\ result = Running
    /\ call = 1
    /\ mode = "first"
    /\ first = NoCall
    /\ OthersIdle

\* the entries as in the order p
Reordered(as, p) == Named([n \in 1..Len(as) |-> as[p[n]]])

\* check_shapes is called again with the same entries in another order
CallReordered ==
    \E p \in Permutations(1..Len(args)) :
        /\ p # [n \in 1..Len(args) |-> n]
        /\ Again(Reordered(args, p), kwargs, "reordered")

NextOrder ==
    \/ Start
    \/ Visit
    \/ Check
    \/ EndPass
    \/ Finish
    \/ CallReordered

SpecOrder == InitOrder /\ [][NextOrder]_vars

\* no call of check_shapes is running
SolverIdle ==
    /\ args = <<>>
    /\ kwargs = EmptyB
    /\ tensors = <<>>
    /\ bindings = EmptyB
    /\ checked_names = {}
    /\ binded_names = {}
    /\ pass_no = 0
    /\ idx = 0
    /\ bindings_len = 0
    /\ pc = "idle"
    /\ result = Running
    /\ call = 0
    /\ mode = "idle"
    /\ first = NoCall

\* ------------------------------------------------------- BroadcastOp.broadcast
MaxBroadcastLen == 3
MaxBroadcastDim == 3

BroadcastTuples == UNION {[1..n -> 1..MaxBroadcastDim] : n \in 0..MaxBroadcastLen}

InitBroadcast ==
    /\ SolverIdle
    /\ ContextsIdle
    /\ TextIdle
    /\ ObjectsIdle
    /\ DecoratorsIdle
    /\ CacheIdle
    /\ \E x \in BroadcastTuples, y \in BroadcastTuples :
          broadcast_call = [pc |-> "pad", args |-> <<x, y>>, x |-> x, y |-> y, idx |-> 0,
                            out |-> <<>>, err |-> <<>>]

\* a faulty padding, on the right of the shorter tuple
pad_right(t, len_diff) == IF len_diff > 0 THEN t \o Ones(len_diff) ELSE t

\* the shorter tuple is padded with len_diff 1s on its left
pad(t, len_diff) == IF len_diff > 0 THEN Ones(len_diff) \o t ELSE t

\* broadcast up to its loop: the two tuples are aligned
BroadcastPad ==
    /\ broadcast_call.pc = "pad"
    /\ broadcast_call' =
          [broadcast_call EXCEPT
              !.x = pad(@, Len(broadcast_call.y) - Len(broadcast_call.x)),
              !.y = pad(@, Len(broadcast_call.x) - Len(broadcast_call.y)),
              !.pc = "loop"]
    /\ UNCHANGED outside_broadcast

\* one iteration of the loop of broadcast over the pairs (xx, yy), idx being
\* the 0-based position of the pair
BroadcastStepWith(xx, yy) ==
    IF xx = 1 THEN broadcast_call' = [broadcast_call EXCEPT !.out = Append(@, yy), !.idx = @ + 1]
    ELSE IF yy = 1 THEN broadcast_call' = [broadcast_call EXCEPT !.out = Append(@, xx), !.idx = @ + 1]
    ELSE IF xx # yy
    THEN broadcast_call' = [broadcast_call EXCEPT !.pc = "raised",
                                                  !.err = <<broadcast_call.idx, xx, yy>>]
    ELSE broadcast_call' = [broadcast_call EXCEPT !.out = Append(@, xx), !.idx = @ + 1]

BroadcastStep ==
    /\ broadcast_call.pc = "loop"
    /\ broadcast_call.idx < Len(broadcast_call.x)
    /\ BroadcastStepWith(broadcast_call.x[broadcast_call.idx + 1],
                         broadcast_call.y[broadcast_call.idx + 1])
    /\ UNCHANGED outside_broadcast

\* the loop is over: the tuple is returned
BroadcastReturn ==
    /\ broadcast_call.pc = "loop"
    /\ broadcast_call.idx = Len(broadcast_call.x)
    /\ broadcast_call' = [broadcast_call EXCEPT !.pc = "returned"]
    /\ UNCHANGED outside_broadcast

NextBroadcast ==
    \/ BroadcastPad
    \/ BroadcastStep
    \/ BroadcastReturn

SpecBroadcast == InitBroadcast /\ [][NextBroadcast]_vars

\* ------------------------------------------- enable_checks / disable_checks
\* the most `with` statements a thread has open
MaxScopes == 2

\* the generator of _set_enable_checks(value) once it has read the flag
Generator(value, prev) == [value |-> value, prev |-> prev, pc |-> "entering"]

Innermost(t) == contexts[t][Len(contexts[t])]

\* thread t is in no `with` statement, or in the body of its innermost one
InBody(t) == IF contexts[t] = <<>> THEN TRUE ELSE Innermost(t).pc = "active"

SetInnermost(t, f) == [contexts EXCEPT ![t] = [@ EXCEPT ![Len(@)] = f]]
PopInnermost(t) == [contexts EXCEPT ![t] = SubSeq(@, 1, Len(@) - 1)]

\* `with enable_checks():` (value TRUE) or `with disable_checks():` (value
\* FALSE) starts in thread t: the generator reads the flag into prev
EnterScope(t, value) ==
    /\ InBody(t)
    /\ Len(contexts[t]) < MaxScopes
    /\ contexts' = [contexts EXCEPT ![t] = Append(@, Generator(value, EINCHECK_ENABLE_CHECKS))]
    /\ UNCHANGED <<EINCHECK_ENABLE_CHECKS, performed>>

\* the generator sets the flag and yields: the body of the `with` starts
SetFlag(t) ==
    /\ contexts[t] # <<>>
    /\ Innermost(t).pc = "entering"
    /\ EINCHECK_ENABLE_CHECKS' = Innermost(t).value
    /\ contexts' = SetInnermost(t, [Innermost(t) EXCEPT !.pc = "active"])
    /\ UNCHANGED performed

\* the body of the innermost `with` of thread t ends: the generator goes on
\* with its assert, which ends it when the flag is not the one it set
ExitAssert(t) ==
    /\ contexts[t] # <<>>
    /\ Innermost(t).pc = "active"
    /\ IF EINCHECK_ENABLE_CHECKS = Innermost(t).value
       THEN contexts' = SetInnermost(t, [Innermost(t) EXCEPT !.pc = "exiting"])
       ELSE contexts' = PopInnermost(t)
    /\ UNCHANGED <<EINCHECK_ENABLE_CHECKS, performed>>

\* a faulty value for the flag at the end of the generator
restored_default(g) == TRUE

\* the value the generator g gives the flag at its end
restored(g) == g.prev

\* the generator gives the flag its last value and ends
ExitRestore(t) ==
    /\ contexts[t] # <<>>
    /\ Innermost(t).pc = "exiting"
    /\ EINCHECK_ENABLE_CHECKS' = restored(Innermost(t))
    /\ contexts' = PopInnermost(t)
    /\ UNCHANGED performed

\* the calls made inside the scopes: a call that binds, a spec text that does
\* not parse, a kind conflict, mismatching shapes, a pre-binding that does not
\* agree, a `$` on a tensor, a spec that cannot be checked
ScopedCalls ==
    { [args |-> Named(<<Tensor(<<2, 1>>, <<single(Vi), single(Vj)>>)>>), kwargs |-> EmptyB],
      [args |-> Named(<<Tensor(<<2>>, Unparsable)>>), kwargs |-> EmptyB],
      [args |-> Named(<<Tensor(<<2, 2>>, <<variadic(Vi)>>),
                        Tensor(<<2>>, <<single(Vi)>>)>>), kwargs |-> EmptyB],
      [args |-> Named(<<Tensor(<<2>>, <<single(Vi), single(Vj)>>)>>), kwargs |-> EmptyB],
      [args |-> Named(<<Tensor(<<2, 1>>, <<single(Vi), single(Vi)>>)>>), kwargs |-> EmptyB],
      [args |-> Named(<<Tensor(<<2, 1>>, <<single(Vi), single(Vj)>>)>>), kwargs |-> "i" :> IntV(1)],
      [args |-> Named(<<Tensor(<<2>>, <<single(DataExpr)>>)>>), kwargs |-> EmptyB],
      [args |-> Named(<<Tensor(<<2, 1>>, <<single(Vi), can_broadcast(single(Vj))>>)>>),
       kwargs |-> EmptyB] }

BetweenCalls == pc \in {"idle", "done"}

\* one thread, its scopes and its calls of check_shapes
InitScopes ==
    /\ SolverIdle
    /\ ContextsIdle
    /\ BroadcastIdle
    /\ TextIdle
    /\ ObjectsIdle
    /\ DecoratorsIdle
    /\ CacheIdle

Enter ==
    /\ BetweenCalls
    /\ \E value \in BOOLEAN : EnterScope(MainThread, value)
    /\ UNCHANGED <<solver_vars, outside_contexts>>

Yield ==
    /\ SetFlag(MainThread)
    /\ UNCHANGED <<solver_vars, outside_contexts>>

Leave ==
    /\ BetweenCalls
    /\ ExitAssert(MainThread)
    /\ UNCHANGED <<solver_vars, outside_contexts>>

Restore ==
    /\ ExitRestore(MainThread)
    /\ UNCHANGED <<solver_vars, outside_contexts>>

\* check_shapes is called in the body of the innermost scope, or outside of
\* every scope
Call ==
    /\ BetweenCalls
    /\ InBody(MainThread)
    /\ \E c \in ScopedCalls : args' = c.args /\ kwargs' = c.kwargs
    /\ tensors' = <<>>
    /\ bindings' = EmptyB
    /\ checked_names' = {}
    /\ binded_names' = {}
    /\ pass_no' = 0
    /\ idx' = 0
    /\ bindings_len' = 0
    /\ pc' = "start"
    /\ result' = Running
    /\ call' = 1
    /\ mode' = "first"
    /\ first' = NoCall
    /\ UNCHANGED other_vars

NextScopes ==
    \/ Enter
    \/ Yield
    \/ Leave
    \/ Restore
    \/ Call
    \/ Start
    \/ Visit
    \/ Check
    \/ EndPass
    \/ Finish

SpecScopes == InitScopes /\ [][NextScopes]_vars

\* an exception propagates out of the body of the innermost `with` of thread
\* t: contextmanager throws it into the generator at its `yield`, which is in
\* no `try`, so the generator ends there and the exception goes on
ThrowInto(t) ==
    /\ contexts[t] # <<>>
    /\ Innermost(t).pc = "active"
    /\ contexts' = PopInnermost(t)
    /\ UNCHANGED <<EINCHECK_ENABLE_CHECKS, performed>>

Throw ==
    /\ BetweenCalls
    /\ ThrowInto(MainThread)
    /\ UNCHANGED <<solver_vars, outside_contexts>>

NextExceptions ==
    \/ Enter
    \/ Yield
    \/ Leave
    \/ Restore
    \/ Throw
    \/ Call
    \/ Start
    \/ Visit
    \/ Check
    \/ EndPass
    \/ Finish

\* the scopes of one thread, whose bodies end normally or with an exception
SpecExceptions == InitScopes /\ [][NextExceptions]_vars

\* several threads, their scopes and their calls of check_shapes, of which
\* only the test of the flag is kept
InitThreads ==
    /\ SolverIdle
    /\ ContextsIdle
    /\ BroadcastIdle
    /\ TextIdle
    /\ ObjectsIdle
    /\ DecoratorsIdle
    /\ CacheIdle

ThreadEnter ==
    /\ \E t \in Threads, value \in BOOLEAN : EnterScope(t, value)
    /\ UNCHANGED <<solver_vars, outside_contexts>>

ThreadYield ==
    /\ \E t \in Threads : SetFlag(t)
    /\ UNCHANGED <<solver_vars, outside_contexts>>

ThreadLeave ==
    /\ \E t \in Threads : ExitAssert(t)
    /\ UNCHANGED <<solver_vars, outside_contexts>>

ThreadRestore ==
    /\ \E t \in Threads : ExitRestore(t)
    /\ UNCHANGED <<solver_vars, outside_contexts>>

\* thread t calls check_shapes, which tests the flag
ThreadCallBy(t) ==
    /\ InBody(t)
    /\ performed' = [performed EXCEPT ![t] = IF should_do_checks THEN "checked" ELSE "skipped"]
    /\ UNCHANGED <<EINCHECK_ENABLE_CHECKS, contexts>>

ThreadCall ==
    /\ \E t \in Threads : ThreadCallBy(t)
    /\ UNCHANGED <<solver_vars, outside_contexts>>

NextThreads ==
    \/ ThreadEnter
    \/ ThreadYield
    \/ ThreadLeave
    \/ ThreadRestore
    \/ ThreadCall

SpecThreads == InitThreads /\ [][NextThreads]_vars

\* ------------------------------------------------- __str__ and the grammar
\* a text is the sequence of its characters
Digits == <<"0", "1", "2", "3", "4", "5", "6", "7", "8", "9">>
DigitChars == {Digits[n] : n \in 1..10}
NameStartChars == {"i", "j", "k", "x", "y", "_"}
NameChars == NameStartChars \cup DigitChars

\* the characters of the names of the variables
Chars(x) ==
    CASE x = "i" -> <<"i">>
      [] x = "j" -> <<"j">>
      [] x = "x" -> <<"x">>
      [] x = "y" -> <<"y">>
      [] x = "_" -> <<"_">>
      [] x = "jk" -> <<"j", "k">>
      [] x = "_x1" -> <<"_", "x", "1">>

RECURSIVE Joined(_)
Joined(cs) == IF cs = <<>> THEN "" ELSE Head(cs) \o Joined(Tail(cs))

\* str of an int
RECURSIVE str_nat(_)
str_nat(n) ==
    IF n < 10 THEN <<Digits[n + 1]>>
    ELSE str_nat(n \div 10) \o <<Digits[(n % 10) + 1]>>

str_int(n) == IF n < 0 THEN <<"-">> \o str_nat(-n) ELSE str_nat(n)

op_text(op) == IF op = "||" THEN <<"|", "|">> ELSE <<op>>

\* Expr.__str__
RECURSIVE str_expr(_)
str_expr(e) ==
    CASE e.op = "lit" -> str_int(e.n)
      [] e.op = "var" -> Chars(e.x)
      [] e.op = "data" -> <<"$">>
      [] OTHER -> <<"(">> \o str_expr(e.args[1]) \o op_text(e.op)
                     \o str_expr(e.args[2]) \o <<")">>

\* DimSpec.__str__ once the text s of the value is known
str_dim_of(d, s) ==
    (IF d.type = "variadic" THEN <<"*">> ELSE <<>>)
    \o s
    \o (IF d.type = "repeated" THEN <<"*">> ELSE <<>>)
    \o (IF d.can_broadcast THEN <<"!">> ELSE <<>>)

\* a faulty DimSpec.__str__, without the `!`
str_dim_without_flag(d) ==
    str_dim_of([d EXCEPT !.can_broadcast = FALSE],
               IF d.value.op # "none" THEN str_expr(d.value) ELSE <<"_">>)

\* DimSpec.__str__
str_dim(d) == str_dim_of(d, IF d.value.op # "none" THEN str_expr(d.value) ELSE <<"_">>)

\* " ".join of the texts of the dims from dim k on
RECURSIVE join_dims(_, _)
join_dims(dims, k) ==
    IF k > Len(dims) THEN <<>>
    ELSE IF k = Len(dims) THEN str_dim(dims[k])
    ELSE str_dim(dims[k]) \o <<" ">> \o join_dims(dims, k + 1)

\* ShapeSpec.__str__
str_spec(dims) == <<"[">> \o join_dims(dims, 1) \o <<"]">>

\* what a rule of the grammar gives at a position of the text: the expression
\* and the position after it, or a failure
Parsed(e, next) == [ok |-> TRUE, e |-> e, next |-> next]
NoParse == [ok |-> FALSE, e |-> NoExpr, next |-> 0]

\* the end of the longest run of characters of the set from position p on
RECURSIVE scan(_, _, _)
scan(cs, p, set) ==
    IF p > Len(cs) THEN p
    ELSE IF cs[p] \in set THEN scan(cs, p + 1, set)
    ELSE p

\* int() of a text of digits
RECURSIVE int_of(_)
int_of(cs) ==
    IF cs = <<>> THEN 0
    ELSE int_of(SubSeq(cs, 1, Len(cs) - 1)) * 10
         + (CHOOSE n \in 0..9 : Digits[n + 1] = cs[Len(cs)])

\* the operator of the rule math at position p: its text, "" when there is none
op_at(cs, p) ==
    IF p > Len(cs) THEN ""
    ELSE IF cs[p] \in {"+", "-", "*", "^"} THEN cs[p]
    ELSE IF cs[p] # "|" THEN ""
    ELSE IF p + 1 > Len(cs) THEN ""
    ELSE IF cs[p + 1] = "|" THEN "||"
    ELSE ""

\* the rule value_expr at position p: INT, NAME or math
RECURSIVE value_expr(_, _)
\* math once both operands are parsed: the closing parenthesis, and the
\* assert of _get_expr (an operand is a DimSpec that is SINGLE with a value)
math_close(cs, op, l, r) ==
    IF ~r.ok THEN NoParse
    ELSE IF r.next > Len(cs) THEN NoParse
    ELSE IF cs[r.next] # ")" THEN NoParse
    ELSE Parsed(BinaryOp(op, l.e, r.e), r.next + 1)

\* math once its left operand is parsed
math_op(cs, l, op) ==
    IF op = "" THEN NoParse
    ELSE math_close(cs, op, l, value_expr(cs, l.next + Len(op_text(op))))

math(cs, l) ==
    IF ~l.ok THEN NoParse
    ELSE IF l.next > Len(cs) THEN NoParse
    ELSE IF cs[l.next] = ")" THEN Parsed(l.e, l.next + 1)
    ELSE math_op(cs, l, op_at(cs, l.next))

value_expr(cs, p) ==
    IF p > Len(cs) THEN NoParse
    ELSE IF cs[p] \in DigitChars
    THEN Parsed(Literal(int_of(SubSeq(cs, p, scan(cs, p, DigitChars) - 1))),
                scan(cs, p, DigitChars))
    ELSE IF cs[p] \in NameStartChars
    THEN Parsed(Variable(Joined(SubSeq(cs, p, scan(cs, p, NameChars) - 1))),
                scan(cs, p, NameChars))
    ELSE IF cs[p] = "(" THEN math(cs, value_expr(cs, p + 1))
    ELSE NoParse

\* what the rules for one dim give: a DimSpec or a failure
ParsedDim(d) == [ok |-> TRUE, d |-> d]
NoDim == [ok |-> FALSE, d |-> DimSpec(NoExpr, "single", FALSE)]

\* the rule expr on the whole text cs, v being what value_expr gives for it
expr_of(cs, v) ==
    IF cs = <<"_">> THEN ParsedDim(DimSpec(NoExpr, "single", FALSE))
    ELSE IF ~v.ok THEN NoDim
    ELSE IF v.next # Len(cs) + 1 THEN NoDim
    ELSE ParsedDim(DimSpec(v.e, "single", FALSE))

expr_rule(cs) == expr_of(cs, value_expr(cs, 1))

\* TreeToSpec.variadic / repeated on what expr gave
typed(r, type) == IF r.ok THEN ParsedDim([r.d EXCEPT !.type = type]) ELSE NoDim

\* the rule dim of the grammar on the whole text cs
dim_rule(cs) ==
    IF cs = <<>> THEN NoDim
    ELSE IF cs = <<".", ".", ".">> THEN ParsedDim(DimSpec(NoExpr, "repeated", FALSE))
    ELSE IF cs[1] = "*" THEN typed(expr_rule(SubSeq(cs, 2, Len(cs))), "variadic")
    ELSE IF cs[Len(cs)] = "*" THEN typed(expr_rule(SubSeq(cs, 1, Len(cs) - 1)), "repeated")
    ELSE expr_rule(cs)

\* TreeToSpec.can_broadcast on what dim gave
flagged(r) == IF r.ok THEN ParsedDim([r.d EXCEPT !.can_broadcast = TRUE]) ELSE NoDim

\* the rule can_broadcast_dim on the whole text cs
can_broadcast_dim(cs) ==
    IF cs = <<>> THEN NoDim
    ELSE IF cs[Len(cs)] = "!" THEN flagged(dim_rule(SubSeq(cs, 1, Len(cs) - 1)))
    ELSE dim_rule(cs)

\* the texts between the spaces of cs
RECURSIVE words(_, _)
words(cs, p) ==
    IF p > Len(cs) THEN <<>>
    ELSE IF cs[p] = " " THEN words(cs, p + 1)
    ELSE <<SubSeq(cs, p, scan(cs, p, (DigitChars \cup NameChars
                                       \cup {"(", ")", "+", "-", "*", "|", "^", "!", ".",
                                             "$", "[", "]"})) - 1)>>
         \o words(cs, scan(cs, p, (DigitChars \cup NameChars
                                    \cup {"(", ")", "+", "-", "*", "|", "^", "!", ".",
                                          "$", "[", "]"})))

\* the rule shape of the grammar on the texts ws of its dims: the dims, or a failure
shape_rule(ws) ==
    IF ws = <<<<"$">>>> THEN [ok |-> TRUE, dims |-> <<DimSpec(DataExpr, "single", FALSE)>>]
    ELSE IF ws = <<<<".">>>> THEN [ok |-> TRUE, dims |-> <<>>]
    ELSE IF \E n \in 1..Len(ws) : ~can_broadcast_dim(ws[n]).ok
    THEN [ok |-> FALSE, dims |-> <<>>]
    ELSE [ok |-> TRUE, dims |-> [n \in 1..Len(ws) |-> can_broadcast_dim(ws[n]).d]]

\* parse_shape_spec without its cache
parse_shape_spec(cs) == shape_rule(words(cs, 1))

\* the longest ShapeSpec and the largest literal of the round trips
MaxSpecLen == 2
MaxLiteral == 10

RoundTripExprs ==
    { Literal(0), Literal(MaxLiteral), Literal(-1),
      Vi, Variable("jk"), Variable("_"), Variable("_x1"),
      AddOp(Vi, Literal(1)),
      MulOp(Literal(2), AddOp(Vi, Literal(MaxLiteral))),
      SubOp(Vj, Vi),
      ConcatOp(Vx, Vy),
      BroadcastOp(Vx, ConcatOp(Vy, Vy)),
      AddOp(Variable("_"), Literal(1)),
      AddOp(DataExpr, Literal(1)),
      DataExpr,
      NoExpr }

RoundTripDims ==
    {DimSpec(e, t, cb) :
        e \in RoundTripExprs, t \in {"single", "repeated", "variadic"}, cb \in BOOLEAN}

\* the dims of the ShapeSpecs of the round trips
RoundTripSlots ==
    { single(Vi),
      can_broadcast(repeated(Literal(2))),
      variadic(Vx),
      single(NoExpr),
      repeated(NoExpr),
      single(DataExpr),
      single(Variable("_")),
      can_broadcast(variadic(ConcatOp(Vx, Vy))) }

InitRoundTrip ==
    /\ SolverIdle
    /\ ContextsIdle
    /\ BroadcastIdle
    /\ ObjectsIdle
    /\ DecoratorsIdle
    /\ CacheIdle
    /\ \/ \E d \in RoundTripDims :
             text_call = [NoText EXCEPT !.pc = "new", !.of = "DimSpec", !.spec = <<d>>]
       \/ \E n \in 0..MaxSpecLen : \E dims \in [1..n -> RoundTripSlots] :
             text_call = [NoText EXCEPT !.pc = "new", !.of = "ShapeSpec", !.spec = dims]

\* str(spec)
Format ==
    /\ text_call.pc = "new"
    /\ text_call' = [text_call EXCEPT
                        !.pc = "text",
                        !.text = IF text_call.of = "DimSpec"
                                 THEN str_dim(text_call.spec[1])
                                 ELSE str_spec(text_call.spec)]
    /\ UNCHANGED outside_text

\* str(spec)[1:-1] of a ShapeSpec
Strip ==
    /\ text_call.pc = "text"
    /\ text_call.of = "ShapeSpec"
    /\ ~text_call.stripped
    /\ text_call' = [text_call EXCEPT
                        !.text = SubSeq(@, 2, Len(@) - 1),
                        !.stripped = TRUE]
    /\ UNCHANGED outside_text

\* create_shape_spec of the text
Parse ==
    /\ text_call.pc = "text"
    /\ text_call' = [text_call EXCEPT
                        !.pc = "parsed",
                        !.parsed = parse_shape_spec(text_call.text)]
    /\ UNCHANGED outside_text

NextRoundTrip ==
    \/ Format
    \/ Strip
    \/ Parse

SpecRoundTrip == InitRoundTrip /\ [][NextRoundTrip]_vars

\* ------------------------------------------------------ ResizeableLruCache

\* the largest maxsize and the most calls between two resets of a cache
MaxCacheSize == 2
MaxCacheCalls == 5

MaxSizes == {MaxSize(n) : n \in 0..MaxCacheSize} \cup {NoMaxSize}

\* the place of the key among the cached calls, 0 when it is not cached
cached_at(c, key) ==
    IF \E n \in 1..Len(c.order) : c.order[n].key = key
    THEN CHOOSE n \in 1..Len(c.order) : c.order[n].key = key
    ELSE 0

without(order, n) == SubSeq(order, 1, n - 1) \o SubSeq(order, n + 1, Len(order))

\* a cache that does not mark a hit as the most recent use
refreshed_never(order, n) == order
\* a hit makes the cached call the most recently used
refreshed(order, n) == Append(without(order, n), order[n])

\* room is made for a new call by dropping the least recently used one
inserted(c, key, value) ==
    IF c.maxsize.bounded /\ Len(c.order) >= c.maxsize.n
    THEN Append(Tail(c.order), [key |-> key, value |-> value])
    ELSE Append(c.order, [key |-> key, value |-> value])

is_hit(c, key) ==
    IF c.maxsize.bounded /\ c.maxsize.n = 0 THEN FALSE ELSE cached_at(c, key) > 0

\* the cache after a call that hit
after_hit(c, key) ==
    [c EXCEPT !.hits = @ + 1, !.order = refreshed(@, cached_at(c, key))]

\* the cache after a call that missed and got `value` from the function
after_miss(c, key, value) ==
    IF c.maxsize.bounded /\ c.maxsize.n = 0
    THEN [c EXCEPT !.misses = @ + 1]
    ELSE [c EXCEPT !.misses = @ + 1, !.order = inserted(c, key, value)]

cache_info(c) ==
    [hits |-> c.hits, misses |-> c.misses, maxsize |-> c.maxsize, currsize |-> Len(c.order)]

cache_clear(c) == [c EXCEPT !.order = <<>>, !.hits = 0, !.misses = 0]

reset_maxsize(c, maxsize) == lru_cache(maxsize)

\* foo of the tests: the text backwards
foo(x) == [n \in 1..Len(x) |-> x[Len(x) + 1 - n]]

CacheArgs == {<<"a", "b">>, <<"b", "a">>, <<"c">>}

InitLru ==
    /\ SolverIdle
    /\ ContextsIdle
    /\ BroadcastIdle
    /\ TextIdle
    /\ ObjectsIdle
    /\ DecoratorsIdle
    /\ ParserIdle
    /\ \E maxsize \in MaxSizes : cached_foo = lru_cache(maxsize)
    /\ FUNC_CALLS = <<>>
    /\ used = <<>>
    /\ returned = NoReturn

\* cached_foo(x), the wrapped function not run
LruHit ==
    /\ Len(used) < MaxCacheCalls
    /\ \E x \in CacheArgs :
          /\ is_hit(cached_foo, x)
          /\ cached_foo' = after_hit(cached_foo, x)
          /\ returned' = [op |-> "call", arg |-> x, hit |-> TRUE,
                          value |-> cached_foo.order[cached_at(cached_foo, x)].value]
          /\ used' = Append(used, x)
    /\ UNCHANGED <<FUNC_CALLS, outside_lru>>

\* cached_foo(x), the wrapped function run
LruMiss ==
    /\ Len(used) < MaxCacheCalls
    /\ \E x \in CacheArgs :
          /\ ~is_hit(cached_foo, x)
          /\ FUNC_CALLS' = Append(FUNC_CALLS, x)
          /\ cached_foo' = after_miss(cached_foo, x, foo(x))
          /\ returned' = [op |-> "call", arg |-> x, hit |-> FALSE, value |-> foo(x)]
          /\ used' = Append(used, x)
    /\ UNCHANGED outside_lru

\* clear_func_calls(); cached_foo.reset_maxsize(maxsize)
LruReset ==
    /\ \E maxsize \in MaxSizes :
          cached_foo' = reset_maxsize(cached_foo, maxsize)
    /\ returned' = [NoReturn EXCEPT !.op = "reset_maxsize"]
    /\ FUNC_CALLS' = <<>>
    /\ used' = <<>>
    /\ UNCHANGED outside_lru

\* clear_func_calls(); cached_foo.cache_clear()
LruClear ==
    /\ cached_foo' = cache_clear(cached_foo)
    /\ returned' = [NoReturn EXCEPT !.op = "cache_clear"]
    /\ FUNC_CALLS' = <<>>
    /\ used' = <<>>
    /\ UNCHANGED outside_lru

NextLru ==
    \/ LruHit
    \/ LruMiss
    \/ LruReset
    \/ LruClear

SpecLru == InitLru /\ [][NextLru]_vars

\* ------------------------------------- parse_shape_spec and its ShapeSpecs

\* the most texts parsed between two resets of the cache of the parser
MaxParses == 4

SpecTexts ==
    { <<"*", "x", " ", "*", "y">>,
      <<"*", "(", "x", "|", "|", "y", ")", " ", "i">> }

\* what a call is given as bindings, and what it may bind later
CachePre == { EmptyB, "x" :> TupV(<<2>>) }
CacheBound == { <<"x", TupV(<<2>>)>>, <<"y", TupV(<<2>>)>> }

\* ShapeSpec(dims), as the transformer makes it
ShapeSpec(text) == [text |-> text, dims |-> parse_shape_spec(text).dims, memo |-> NoMemo]

\* the objects something still refers to
live(h, c, entries) ==
    [id \in {c.order[n].value : n \in 1..Len(c.order)} \cup {entries[n] : n \in 1..Len(entries)}
        |-> h[id]]

new_id(h) == CHOOSE id \in 1..(Cardinality(DOMAIN h) + 1) : id \notin DOMAIN h

\* hash(tuple(bindings.items())), which tells any two bindings of the model apart
bindings_key(b) == b

\* a memo that is taken whatever the bindings it was made for
memo_hit_any_key(spec, b) == spec.memo.set
memo_hit(spec, b) == spec.memo.set /\ spec.memo.key = bindings_key(b)

InitParser ==
    /\ SolverIdle
    /\ ContextsIdle
    /\ BroadcastIdle
    /\ TextIdle
    /\ ObjectsIdle
    /\ DecoratorsIdle
    /\ LruIdle
    /\ heap = NoHeap
    /\ shape_call = NoShapeCall
    /\ \E maxsize \in MaxSizes : cached_parse = lru_cache(maxsize)

\* check_shapes(..., **bindings) is entered
BeginCall ==
    /\ shape_call.pc = "idle"
    /\ \E b \in CachePre :
          shape_call' = [NoShapeCall EXCEPT !.pc = "args", !.bindings = b]
    /\ UNCHANGED <<cached_parse, heap, outside_parser>>

\* create_shape_spec(text) of an entry finds the text in the cache
ParseHit ==
    /\ shape_call.pc = "args"
    /\ Len(shape_call.entries) < MaxEntries
    /\ cached_parse.hits + cached_parse.misses < MaxParses
    /\ \E text \in SpecTexts :
          /\ is_hit(cached_parse, text)
          /\ cached_parse' = after_hit(cached_parse, text)
          /\ shape_call' = [shape_call EXCEPT
                !.entries = Append(@, cached_parse.order[cached_at(cached_parse, text)].value)]
    /\ UNCHANGED <<heap, outside_parser>>

ParseMissWith(text, id, entries) ==
    /\ cached_parse' = after_miss(cached_parse, text, id)
    /\ shape_call' = [shape_call EXCEPT !.entries = entries]
    /\ heap' = live(heap @@ (id :> ShapeSpec(text)),
                    after_miss(cached_parse, text, id), entries)

\* create_shape_spec(text) of an entry parses the text
ParseMiss ==
    /\ shape_call.pc = "args"
    /\ Len(shape_call.entries) < MaxEntries
    /\ cached_parse.hits + cached_parse.misses < MaxParses
    /\ \E text \in SpecTexts :
          /\ ~is_hit(cached_parse, text)
          /\ ParseMissWith(text, new_id(heap), Append(shape_call.entries, new_id(heap)))
    /\ UNCHANGED outside_parser

\* the loop of check_shapes begins
Solve ==
    /\ shape_call.pc = "args"
    /\ shape_call.entries # <<>>
    /\ shape_call' = [shape_call EXCEPT !.pc = "solving"]
    /\ UNCHANGED <<cached_parse, heap, outside_parser>>

\* unknown_n_dims_indices(bindings) answers with the memo of the object
UseMemo ==
    /\ shape_call.pc = "solving"
    /\ \E e \in 1..Len(shape_call.entries) :
          /\ memo_hit(heap[shape_call.entries[e]], shape_call.bindings)
          /\ shape_call' = [shape_call EXCEPT
                !.answer = [id |-> shape_call.entries[e],
                            text |-> heap[shape_call.entries[e]].text,
                            dims |-> heap[shape_call.entries[e]].dims,
                            bindings |-> shape_call.bindings,
                            out |-> heap[shape_call.entries[e]].memo.out,
                            hit |-> TRUE]]
    /\ UNCHANGED <<cached_parse, heap, outside_parser>>

UseFreshWith(id, out) ==
    /\ heap' = [heap EXCEPT ![id].memo =
                  [set |-> TRUE, key |-> bindings_key(shape_call.bindings), out |-> out]]
    /\ shape_call' = [shape_call EXCEPT
          !.answer = [id |-> id, text |-> heap[id].text, dims |-> heap[id].dims,
                      bindings |-> shape_call.bindings, out |-> out, hit |-> FALSE]]

\* unknown_n_dims_indices(bindings) computes the indices and keeps them
UseFresh ==
    /\ shape_call.pc = "solving"
    /\ \E e \in 1..Len(shape_call.entries) :
          /\ ~memo_hit(heap[shape_call.entries[e]], shape_call.bindings)
          /\ UseFreshWith(shape_call.entries[e],
                          unknown_n_dims_indices(heap[shape_call.entries[e]].dims,
                                                 shape_call.bindings))
    /\ UNCHANGED <<cached_parse, outside_parser>>

\* _bind_shape binds a variable
BindVariable ==
    /\ shape_call.pc = "solving"
    /\ \E xv \in CacheBound :
          /\ xv[1] \notin DOMAIN shape_call.bindings
          /\ shape_call' = [shape_call EXCEPT !.bindings = setdefault(@, xv[1], xv[2])]
    /\ UNCHANGED <<cached_parse, heap, outside_parser>>

\* check_shapes returns or raises
EndCall ==
    /\ shape_call.pc = "solving"
    /\ shape_call' = NoShapeCall
    /\ heap' = live(heap, cached_parse, <<>>)
    /\ UNCHANGED <<cached_parse, outside_parser>>

\* parser_resize_cache(maxsize)
ParserResize ==
    /\ shape_call.pc = "idle"
    /\ \E maxsize \in MaxSizes :
          cached_parse' = reset_maxsize(cached_parse, maxsize)
    /\ heap' = NoHeap
    /\ UNCHANGED <<shape_call, outside_parser>>

\* parser_cache_clear()
ParserClear ==
    /\ shape_call.pc = "idle"
    /\ cached_parse' = cache_clear(cached_parse)
    /\ heap' = NoHeap
    /\ UNCHANGED <<shape_call, outside_parser>>

NextParser ==
    \/ BeginCall
    \/ ParseHit
    \/ ParseMiss
    \/ Solve
    \/ UseMemo
    \/ UseFresh
    \/ BindVariable
    \/ EndCall
    \/ ParserResize
    \/ ParserClear

SpecParser == InitParser /\ [][NextParser]_vars

\* ------------------------------------------------------ methods of DimSpec

\* what a builder gives: a new DimSpec, or the AssertionError
Built(d) == [ok |-> TRUE, is |-> FALSE, d |-> d]
AssertionError(d) == [ok |-> FALSE, is |-> FALSE, d |-> d]

make_variadic(d) ==
    IF d.type = "single" THEN Built([d EXCEPT !.type = "variadic"]) ELSE AssertionError(d)

make_repeated(d) ==
    IF d.type = "single" THEN Built([d EXCEPT !.type = "repeated"]) ELSE AssertionError(d)

\* a make_can_broadcast that asserts the default state
make_can_broadcast_of_default(d) ==
    IF d.type = "single" /\ ~d.can_broadcast
    THEN Built([d EXCEPT !.can_broadcast = TRUE]) ELSE AssertionError(d)

make_can_broadcast(d) == Built([d EXCEPT !.can_broadcast = TRUE])

MethodNames == {"i", "j", "x"}

InitDimSpec ==
    /\ SolverIdle
    /\ ContextsIdle
    /\ BroadcastIdle
    /\ TextIdle
    /\ DecoratorsIdle
    /\ CacheIdle
    /\ indices_call = NoIndicesCall
    /\ \E d \in RoundTripDims : \E values \in SUBSET MethodNames :
          dim_call = [NoDimCall EXCEPT !.pc = "new", !.d = d, !.values = values]

Called(op, out) ==
    /\ dim_call.pc = "new"
    /\ dim_call' = [dim_call EXCEPT !.pc = "done", !.op = op, !.out = out]
    /\ UNCHANGED <<indices_call, outside_objects>>

\* d.is_checkable(values)
IsCheckable ==
    Called("is_checkable",
           [ok |-> TRUE, is |-> dim_is_checkable(dim_call.d, dim_call.values), d |-> dim_call.d])

\* d.make_variadic()
MakeVariadic == Called("make_variadic", make_variadic(dim_call.d))

\* d.make_repeated()
MakeRepeated == Called("make_repeated", make_repeated(dim_call.d))

\* d.make_can_broadcast()
MakeCanBroadcast == Called("make_can_broadcast", make_can_broadcast(dim_call.d))

NextDimSpec ==
    \/ IsCheckable
    \/ MakeVariadic
    \/ MakeRepeated
    \/ MakeCanBroadcast

SpecDimSpec == InitDimSpec /\ [][NextDimSpec]_vars

\* -------------------------------------------- ShapeSpec.matched_indices

IndexSlots ==
    { single(Vi),
      single(NoExpr),
      repeated(Vi),
      repeated(NoExpr),
      variadic(Vx),
      variadic(Vy),
      variadic(ConcatOp(Vx, Vy)),
      variadic(Literal(2)),
      variadic(AddOp(Vx, Literal(1))) }

IndexBindings ==
    { EmptyB,
      "i" :> IntV(2),
      "x" :> TupV(<<>>),
      "x" :> TupV(<<2>>),
      ("x" :> TupV(<<2, 1>>)) @@ ("y" :> TupV(<<2>>)) }

\* matched_indices with the exception that n_dims may raise (e)
matched_indices_or(e, m) ==
    IF IsErr(e) THEN [err |-> e.k, msg |-> "", ranges |-> <<>>] ELSE m

InitIndices ==
    /\ SolverIdle
    /\ ContextsIdle
    /\ BroadcastIdle
    /\ TextIdle
    /\ DecoratorsIdle
    /\ CacheIdle
    /\ dim_call = NoDimCall
    /\ \E n \in 0..MaxSpecLen : \E dims \in [1..n -> IndexSlots] :
       \E b \in IndexBindings : \E rank \in 0..(2 * MaxRank) :
          indices_call = [NoIndicesCall EXCEPT
                             !.pc = "new", !.dims = dims, !.bindings = b, !.n_dims = rank]

\* spec.matched_indices(bindings, n_dims) returns
MatchedIndicesReturns ==
    /\ indices_call.pc = "new"
    /\ matched_indices_or(n_dims_error(indices_call.dims, indices_call.bindings),
                          matched_indices(indices_call.dims, indices_call.bindings,
                                          indices_call.n_dims)).err = ""
    /\ indices_call' = [indices_call EXCEPT
          !.pc = "done",
          !.out = matched_indices(indices_call.dims, indices_call.bindings,
                                  indices_call.n_dims)]
    /\ UNCHANGED <<dim_call, outside_objects>>

\* spec.matched_indices(bindings, n_dims) raises
MatchedIndicesRaises ==
    /\ indices_call.pc = "new"
    /\ matched_indices_or(n_dims_error(indices_call.dims, indices_call.bindings),
                          matched_indices(indices_call.dims, indices_call.bindings,
                                          indices_call.n_dims)).err # ""
    /\ indices_call' = [indices_call EXCEPT
          !.pc = "done",
          !.out = matched_indices_or(
                     n_dims_error(indices_call.dims, indices_call.bindings),
                     matched_indices(indices_call.dims, indices_call.bindings,
                                     indices_call.n_dims))]
    /\ UNCHANGED <<dim_call, outside_objects>>

NextIndices ==
    \/ MatchedIndicesReturns
    \/ MatchedIndicesRaises

SpecIndices == InitIndices /\ [][NextIndices]_vars

\* -------------------------------------------------- check_func / check_func2
MaxApplications == 2

\* a dict as the sequence of its items, in the order of their insertion
keys(d) == {d[n].k : n \in 1..Len(d)}
names_of(d) == [n \in 1..Len(d) |-> d[n].k]
item(d, k) == d[CHOOSE n \in 1..Len(d) : d[n].k = k].v
put(d, k, v) == Append(d, [k |-> k, v |-> v])

\* the closure that _get_wrapper makes of its arguments; given is a copy of
\* input_kwarg_shapes as it was passed, which the code does not keep
Closure(input_arg_shapes, input_kwarg_shapes, output_shapes) ==
    [input_arg_shapes |-> input_arg_shapes, input_kwarg_shapes |-> input_kwarg_shapes,
     output_shapes |-> output_shapes, given |-> input_kwarg_shapes]

\* the decorator made again from the arguments that made c
Fresh(c) == Closure(c.input_arg_shapes, c.given, c.output_shapes)

Si == <<single(Vi)>>
Sj == <<single(Vj)>>
Sij == <<single(Vi), single(Vj)>>

\* check_func("i -> i"), check_func("i, j -> i j"), check_func("i -> j"),
\* check_func("i -> i, i"), check_func("i -> i", x="i") and
\* check_func("i j", x="i", y="j"); check_func2 makes the same closures of
\* "i", "i" and so on, the last one of {"x": "i", "y": "j"}, "i j"
DecoratorCat ==
    { Closure(<<Si>>, <<>>, <<Si>>),
      Closure(<<Si, Sj>>, <<>>, <<Sij>>),
      Closure(<<Si>>, <<>>, <<Sj>>),
      Closure(<<Si>>, <<>>, <<Si, Si>>),
      Closure(<<Si>>, <<[k |-> "x", v |-> Si]>>, <<Si>>),
      Closure(<<>>, <<[k |-> "x", v |-> Si], [k |-> "y", v |-> Sj]>>, <<Sij>>) }

\* the parameters of the functions that are decorated
Signatures == {<<"x">>, <<"y">>, <<"x", "y">>, <<"y", "x">>}

\* the shapes of the arguments of a call, and of what the function returns
ArgumentShapes == {<<2>>, <<3>>}
OutputShapes == {<<2>>, <<2, 3>>}

\* what a function returns: a tensor (items has one shape) or a tuple of two
Outputs ==
    {[tuple |-> FALSE, items |-> <<sh>>] : sh \in OutputShapes}
        \cup {[tuple |-> TRUE, items |-> <<a, b>>] : a \in OutputShapes, b \in OutputShapes}

\* wrapper: the loop over zip(input_arg_shapes, sig.parameters) from k on, on
\* the dict input_shapes: [err, input_shapes]
RECURSIVE zip_args(_, _, _, _)
zip_args(specs, sig, input_shapes, k) ==
    IF k > Len(specs) \/ k > Len(sig) THEN [err |-> "", input_shapes |-> input_shapes]
    ELSE IF sig[k] \in keys(input_shapes)
    THEN [err |-> "BothArgsAndKwargs", input_shapes |-> input_shapes]
    ELSE zip_args(specs, sig, put(input_shapes, sig[k], specs[k]), k + 1)

\* wrapper: parsed_names after its sort, the names of the parameters first and
\* in their order (names without dots)
parsed_names(input_shapes, sig) ==
    LET known(n) == n \in keys(input_shapes)
        other(n) == n \notin Range(sig)
    IN  SelectSeq(sig, known) \o SelectSeq(names_of(input_shapes), other)

\* wrapper once its loop gave z, for a function without **kwargs
wrapper_after(z, sig) ==
    IF z.err # ""
    THEN [err |-> z.err, input_shapes |-> z.input_shapes, parsed_names |-> <<>>]
    ELSE IF ~(keys(z.input_shapes) \subseteq Range(sig))
    THEN [err |-> "NameError", input_shapes |-> z.input_shapes, parsed_names |-> <<>>]
    ELSE [err |-> "", input_shapes |-> z.input_shapes,
          parsed_names |-> parsed_names(z.input_shapes, sig)]

\* wrapper(func) in the closure c, sig being the parameters of func: what it
\* raises, the dict that input_kwarg_shapes names afterwards, and parsed_names
wrapper(c, sig) ==
    IF Len(sig) < Len(c.input_arg_shapes)
    THEN [err |-> "TooFewParameters", input_shapes |-> c.input_kwarg_shapes,
          parsed_names |-> <<>>]
    ELSE wrapper_after(zip_args(c.input_arg_shapes, sig, c.input_kwarg_shapes, 1), sig)

\* the position of the parameter n in sig
index(sig, n) == CHOOSE k \in 1..Len(sig) : sig[k] = n

\* inner: input_data, for the arguments xs of the parameters sig; input_shapes
\* is the dict of the closure as it is when inner runs
input_data(names, sig, xs, input_shapes) ==
    [n \in 1..Len(names) |->
        [name |-> names[n], val |-> "tensor", shape |-> xs[index(sig, names[n])],
         spec |-> item(input_shapes, names[n]), children |-> <<>>]]

\* the shape that get_shape finds for what the function returned
shape_of(out) == IF out.tuple THEN <<Len(out.items)>> ELSE out.items[1]

\* inner: out_tup
out_tup(out, output_shapes) ==
    IF out.tuple /\ Len(output_shapes) > 1 THEN out.items ELSE <<shape_of(out)>>

OutputNames == <<"output0", "output1">>

\* inner: the entries of the second check_shapes
output_data(tup, output_shapes) ==
    [n \in 1..Len(output_shapes) |->
        [name |-> OutputNames[n], val |-> "tensor", shape |-> tup[n],
         spec |-> output_shapes[n], children |-> <<>>]]

\* a faulty inner, which checks the outputs without pre-bindings
output_kwargs_none(updated_spec) == EmptyB

\* inner: the pre-bindings of the second check_shapes
output_kwargs(updated_spec) == updated_spec

\* one decorator of the catalogue, applied to nothing yet
InitFunc ==
    /\ SolverIdle
    /\ ContextsIdle
    /\ BroadcastIdle
    /\ TextIdle
    /\ ObjectsIdle
    /\ CacheIdle
    /\ get_wrapper \in DecoratorCat
    /\ inners = <<>>
    /\ inner_call = NoInnerCall

\* the decorator is applied to a function of parameters sig, w being what
\* wrapper gives: input_shapes is input_kwarg_shapes itself, not a copy
ApplyTo(sig, w) ==
    /\ get_wrapper' = [get_wrapper EXCEPT !.input_kwarg_shapes = w.input_shapes]
    /\ inners' = Append(inners, [err |-> w.err, sig |-> sig, parsed_names |-> w.parsed_names])

\* a function is decorated, before any decorated function is called
Apply ==
    /\ inner_call.pc = "idle"
    /\ Len(inners) < MaxApplications
    /\ \E sig \in Signatures : ApplyTo(sig, wrapper(get_wrapper, sig))
    /\ UNCHANGED <<inner_call, solver_vars, outside_inner>>

\* check_shapes is entered with the entries as and the pre-bindings kw
EnterCheckShapes(as, kw) ==
    /\ args' = as
    /\ kwargs' = kw
    /\ tensors' = <<>>
    /\ bindings' = EmptyB
    /\ checked_names' = {}
    /\ binded_names' = {}
    /\ pass_no' = 0
    /\ idx' = 0
    /\ bindings_len' = 0
    /\ pc' = "start"
    /\ result' = Running
    /\ call' = 1
    /\ mode' = "first"
    /\ first' = NoCall

\* the decorated function f is called with arguments of the shapes xs: inner
\* runs up to its first check_shapes, or calls the function when the checks
\* are disabled
InvokeWith(f, xs) ==
    IF ~should_do_checks
    THEN /\ inner_call' = [NoInnerCall EXCEPT !.pc = "returned", !.inner = f,
                                              !.arguments = xs, !.events = <<"call">>]
         /\ UNCHANGED solver_vars
    ELSE /\ inner_call' = [NoInnerCall EXCEPT !.pc = "inputs", !.inner = f,
                                              !.arguments = xs, !.events = <<"inputs">>]
         /\ EnterCheckShapes(input_data(inners[f].parsed_names, inners[f].sig, xs,
                                        get_wrapper.input_kwarg_shapes),
                             EmptyB)

Invoke ==
    /\ inner_call.pc \in {"idle", "returned", "raised"}
    /\ \E f \in 1..Len(inners) :
          /\ inners[f].err = ""
          /\ \E xs \in [1..Len(inners[f].sig) -> ArgumentShapes] : InvokeWith(f, xs)
    /\ UNCHANGED <<get_wrapper, inners, outside_inner>>

\* the first check_shapes raised: inner ends with its exception
RaiseInputs ==
    /\ inner_call.pc = "inputs"
    /\ pc = "done"
    /\ result.status # "ok"
    /\ inner_call' = [inner_call EXCEPT !.pc = "raised"]
    /\ UNCHANGED <<get_wrapper, inners, solver_vars, outside_inner>>

\* the first check_shapes returned updated_spec: the function is called and
\* returns some value
CallFunc ==
    /\ inner_call.pc = "inputs"
    /\ pc = "done"
    /\ result.status = "ok"
    /\ \E out \in Outputs :
          inner_call' = [inner_call EXCEPT !.pc = "called", !.updated_spec = result.b,
                                           !.out = out, !.events = Append(@, "call")]
    /\ UNCHANGED <<get_wrapper, inners, solver_vars, outside_inner>>

\* inner after the function, tup being out_tup: too few outputs are an error,
\* else the second check_shapes is entered
CheckOutputsOf(tup) ==
    IF Len(tup) < Len(get_wrapper.output_shapes)
    THEN /\ inner_call' = [inner_call EXCEPT !.pc = "raised"]
         /\ UNCHANGED solver_vars
    ELSE /\ inner_call' = [inner_call EXCEPT !.pc = "outputs", !.events = Append(@, "outputs")]
         /\ EnterCheckShapes(output_data(tup, get_wrapper.output_shapes),
                             output_kwargs(inner_call.updated_spec))

CheckOutputs ==
    /\ inner_call.pc = "called"
    /\ CheckOutputsOf(out_tup(inner_call.out, get_wrapper.output_shapes))
    /\ UNCHANGED <<get_wrapper, inners, outside_inner>>

\* the second check_shapes has ended: inner returns out or ends with the
\* exception
Return ==
    /\ inner_call.pc = "outputs"
    /\ pc = "done"
    /\ inner_call' = [inner_call EXCEPT !.pc = IF result.status = "ok" THEN "returned"
                                               ELSE "raised"]
    /\ UNCHANGED <<get_wrapper, inners, solver_vars, outside_inner>>

NextFunc ==
    \/ Apply
    \/ Invoke
    \/ RaiseInputs
    \/ CallFunc
    \/ CheckOutputs
    \/ Return
    \/ Start
    \/ Visit
    \/ Check
    \/ EndPass
    \/ Finish

SpecFunc == InitFunc /\ [][NextFunc]_vars

\* =============================================================== properties
done == pc = "done"
succeeded == done /\ result.status = "ok"
failed_as(kind) == done /\ result.status = "fail" /\ result.kind = kind

\* the observed dimensions g of a slot d equal the value v of its expression
\* (SINGLE: the one dimension; REPEATED: each dimension; VARIADIC: the tuple)
SlotAgrees(d, g, v) ==
    CASE d.type = "single" -> Len(g) = 1 /\ v = IntV(g[1])
      [] d.type = "repeated" -> \A i \in 1..Len(g) : v = IntV(g[i])
      [] d.type = "variadic" -> v = TupV(g)

\* the observed dimensions g of a broadcast-tolerant slot d can be broadcast to
\* the value v of its expression: each one equals the expected one or is 1
SlotBroadcastsTo(d, g, v) ==
    CASE d.type = "single" -> Len(g) = 1 /\ v.k = "int" /\ g[1] \in {v.t[1], 1}
      [] d.type = "repeated" -> \A i \in 1..Len(g) : v.k = "int" /\ g[i] \in {v.t[1], 1}
      [] d.type = "variadic" ->
            /\ v.k = "tuple"
            /\ Len(v.t) = Len(g)
            /\ \A i \in 1..Len(g) : g[i] \in {v.t[i], 1}

\* every slot of entry t that has an expression and is not broadcast-tolerant
\* agrees with the bindings b, m being the index ranges allocated under b
EntryAgrees(t, b, m) ==
    /\ m.err = ""
    /\ \A i \in 1..Len(t.spec) :
          (t.spec[i].value.op # "none" /\ ~t.spec[i].can_broadcast)
          => SlotAgrees(t.spec[i], g_slice(t.shape, m.ranges[i]),
                        eval(t.spec[i].value, b))

\* the slots of entry t whose allocated range holds the dimension index dim
SlotsAt(t, m, dim) ==
    {i \in 1..Len(t.spec) : m.ranges[i][1] <= dim /\ dim < m.ranges[i][2]}

\* the value mismatch that was raised names the variables of a slot of entry t
\* at the reported dimension, and that slot does not match the bindings b
MismatchNamed(t, b, m) ==
    /\ m.err = ""
    /\ result.entries = {t.name}
    /\ \E i \in SlotsAt(t, m, result.dim) :
          /\ result.names = variables(t.spec[i].value)
          /\ IF t.spec[i].can_broadcast
             THEN ~SlotBroadcastsTo(t.spec[i], g_slice(t.shape, m.ranges[i]),
                                    eval(t.spec[i].value, b))
             ELSE ~SlotAgrees(t.spec[i], g_slice(t.shape, m.ranges[i]),
                              eval(t.spec[i].value, b))

\* C1: when check_shapes returns bindings B, every slot with an expression that
\* is not broadcast-tolerant, of every entry, has in its allocated index range
\* observed dimensions equal to the value of its expression under B; and a
\* value mismatch is raised for an entry and names the variables of a slot of
\* it that disagrees with the bindings.
C1_Agreement ==
    /\ succeeded =>
          \A n \in 1..Len(tensors) :
             EntryAgrees(tensors[n], result.b,
                         matched_indices(tensors[n].spec, result.b, Len(tensors[n].shape)))
    /\ failed_as("ValueMismatch") =>
          MismatchNamed(tensors[idx], bindings,
                        matched_indices(tensors[idx].spec, bindings, Len(tensors[idx].shape)))

\* two entries that share the variable i, which no pre-binding gives, agree
C1_Witness ==
    /\ succeeded
    /\ Len(tensors) = 2
    /\ "i" \in spec_variables(tensors[1].spec) \cap spec_variables(tensors[2].spec)
    /\ "i" \notin DOMAIN kwargs
    /\ tensors[1].spec # tensors[2].spec

\* the entries of the call that are not skipped
entries_present == {n \in 1..Len(args) : present(args[n])}

\* the variable names that the call mentions
names_mentioned ==
    (DOMAIN kwargs) \cup UNION {spec_variables(args[n].spec) : n \in entries_present}

\* x is used as a tuple: by a VARIADIC slot, or pre-bound to a tuple
UsedAsTuple(x) ==
    \/ \E n \in entries_present : \E i \in 1..Len(args[n].spec) :
          args[n].spec[i].type = "variadic" /\ x \in variables(args[n].spec[i].value)
    \/ x \in DOMAIN kwargs /\ kwargs[x].k = "tuple"

\* x is used as an integer: by a SINGLE or REPEATED slot, or pre-bound to one
UsedAsInt(x) ==
    \/ \E n \in entries_present : \E i \in 1..Len(args[n].spec) :
          args[n].spec[i].type # "variadic" /\ x \in variables(args[n].spec[i].value)
    \/ x \in DOMAIN kwargs /\ kwargs[x].k = "int"

Conflicts == {x \in names_mentioned : UsedAsTuple(x) /\ UsedAsInt(x)}

\* no entry is rejected while the arguments are gathered (no `$` in the spec
\* of an entry)
gathered == get_tensors(args, 1, <<>>).err = ""

\* C2: when a variable is used as a tuple (a VARIADIC slot, a tuple
\* pre-binding) and as an integer (a SINGLE or REPEATED slot, an integer
\* pre-binding), a call whose entries are all gathered fails with the
\* kind-conflict error, which names that variable, before any rank or value
\* check and for every order of the entries.
C2_KindConflict ==
    (pc # "start" /\ gathered /\ Conflicts # {})
    => /\ failed_as("KindConflict")
       /\ Conflicts \subseteq result.names
       /\ pass_no = 0

\* a conflict across two entries, one of which would also fail the rank check
C2_Witness ==
    /\ failed_as("KindConflict")
    /\ Len(tensors) = 2
    /\ \E x \in result.names :
          /\ x \notin DOMAIN kwargs
          /\ x \in spec_variables(tensors[1].spec) \cap spec_variables(tensors[2].spec)
    /\ \E n \in 1..2 : check_rank(tensors[n].shape, tensors[n].spec, kwargs)

\* C3: idempotence: when check_shapes(E, P) returned B, the call
\* check_shapes(E, P with B) returns exactly B as well.
C3_Idempotent ==
    (done /\ call = 2 /\ mode = "returned")
    => /\ first.result.status = "ok"
       /\ result = first.result

\* the second call of two entries returned the bindings the first call found,
\* which are more than its pre-bindings
C3_Witness ==
    /\ succeeded
    /\ call = 2
    /\ mode = "returned"
    /\ Len(tensors) = 2
    /\ first.args = args
    /\ Cardinality(DOMAIN first.kwargs) < Cardinality(DOMAIN result.b)
    /\ kwargs = first.result.b

\* the spec dims is made of SINGLE integer literals only
IsLiteralSpec(dims) ==
    \A i \in 1..Len(dims) : dims[i].type = "single" /\ dims[i].value.op = "lit"

\* shape is the tuple of the literals of dims: the same length, and at every
\* position the literal, or at a slot marked `!` the literal or 1
LiteralMatch(shape, dims) ==
    /\ Len(shape) = Len(dims)
    /\ \A i \in 1..Len(dims) :
          IF dims[i].can_broadcast
          THEN shape[i] \in {dims[i].value.n, 1}
          ELSE shape[i] = dims[i].value.n

\* C4: a call of one entry whose spec holds integer literals only succeeds
\* exactly when the observed shape has the length of the spec and equals the
\* literal at every position, a slot marked `!` accepting in addition what can
\* be broadcast to its literal (the dimension 1).
C4_LiteralSpec ==
    (done /\ Len(args) = 1 /\ present(args[1]) /\ IsLiteralSpec(args[1].spec))
    => (result.status = "ok" <=> LiteralMatch(args[1].shape, args[1].spec))

\* a literal spec with a slot marked `!` accepted a shape that differs from the
\* literals at that slot
C4_Witness ==
    /\ succeeded
    /\ Len(args) = 1
    /\ IsLiteralSpec(args[1].spec)
    /\ Len(args[1].spec) = 2
    /\ \E i \in 1..2 : args[1].shape[i] # args[1].spec[i].value.n
    /\ \E i \in 1..2 : ~args[1].spec[i].can_broadcast

\* the observed dimensions g of a broadcast-tolerant slot d and the value v of
\* its expression are compatible in either direction: at each position they
\* are equal, or the observed one is 1, or the expected one is 1
SlotBroadcastsEitherWay(d, g, v) ==
    CASE d.type = "single" ->
            Len(g) = 1 /\ v.k = "int" /\ (g[1] \in {v.t[1], 1} \/ v.t[1] = 1)
      [] d.type = "repeated" ->
            \A i \in 1..Len(g) : v.k = "int" /\ (g[i] \in {v.t[1], 1} \/ v.t[1] = 1)
      [] d.type = "variadic" ->
            /\ v.k = "tuple"
            /\ Len(v.t) = Len(g)
            /\ \A i \in 1..Len(g) : g[i] \in {v.t[i], 1} \/ v.t[i] = 1

\* every broadcast-tolerant slot of entry t that has an expression satisfies
\* the rule Ok under the bindings b, m being the index ranges allocated under b
BroadcastSlotsOk(Ok(_, _, _), t, b, m) ==
    /\ m.err = ""
    /\ \A i \in 1..Len(t.spec) :
          (t.spec[i].value.op # "none" /\ t.spec[i].can_broadcast)
          => Ok(t.spec[i], g_slice(t.shape, m.ranges[i]), eval(t.spec[i].value, b))

\* the slot of entry t at the dimension of the value mismatch that was raised,
\* if it is broadcast-tolerant, does not satisfy the rule Ok
RejectedSlotNotOk(Ok(_, _, _), t, b, m) ==
    /\ m.err = ""
    /\ \A i \in SlotsAt(t, m, result.dim) :
          t.spec[i].can_broadcast
          => ~Ok(t.spec[i], g_slice(t.shape, m.ranges[i]), eval(t.spec[i].value, b))

\* the value check of the broadcast-tolerant slots accepts exactly under Ok
AcceptsExactly(Ok(_, _, _)) ==
    /\ succeeded =>
          \A n \in 1..Len(tensors) :
             BroadcastSlotsOk(Ok, tensors[n], result.b,
                              matched_indices(tensors[n].spec, result.b, Len(tensors[n].shape)))
    /\ failed_as("ValueMismatch") =>
          RejectedSlotNotOk(Ok, tensors[idx], bindings,
                            matched_indices(tensors[idx].spec, bindings, Len(tensors[idx].shape)))

\* every name bound by the call itself is the bare variable of a slot that is
\* not broadcast-tolerant
BoundFromPlainSlots ==
    \A x \in (DOMAIN bindings) \ (DOMAIN kwargs) :
       \E n \in 1..Len(tensors) : \E i \in 1..Len(tensors[n].spec) :
          tensors[n].spec[i].value = Variable(x) /\ ~tensors[n].spec[i].can_broadcast

\* C5 as stated: at a broadcast-tolerant slot the value check accepts an
\* observed dimension d against the expected value e exactly when d = e or
\* d = 1 or e = 1, and such a slot never binds its variable.
C5_AsStated == AcceptsExactly(SlotBroadcastsEitherWay) /\ BoundFromPlainSlots

\* C5: at a broadcast-tolerant slot the value check accepts an observed
\* dimension d against the expected value e exactly when d = e or d = 1
\* (position by position for a VARIADIC slot): an expected 1 does not accept
\* another observed dimension; and such a slot never binds its variable.
C5_BroadcastOneWay == AcceptsExactly(SlotBroadcastsTo) /\ BoundFromPlainSlots

\* a broadcast-tolerant slot whose expected value is 1 rejected an observed
\* dimension other than 1
C5_Witness ==
    /\ failed_as("ValueMismatch")
    /\ \E i \in 1..Len(tensors[idx].spec) :
          /\ tensors[idx].spec[i].can_broadcast
          /\ tensors[idx].spec[i].type = "single"
          /\ eval(tensors[idx].spec[i].value, bindings) = IntV(1)
          /\ result.dim = i - 1
          /\ Len(tensors[idx].shape) = Len(tensors[idx].spec)
          /\ tensors[idx].shape[i] > 1

\* the slots of dims whose width is not determined under the bindings b
Undetermined(dims, b) == {i \in 1..Len(dims) : n_dims(dims[i], b).k = "none"}

\* the sum of the determined widths of dims under the bindings b
DeterminedWidths(dims, b) ==
    SumSeq([i \in 1..Len(dims) |->
              IF n_dims(dims[i], b).k = "int" THEN n_dims(dims[i], b).t[1] ELSE 0])

\* the rank of entry t is wrong under the bindings b: smaller than the sum of
\* the determined widths when a slot is undetermined, different from it when
\* none is
RankBad(t, b) ==
    IF Undetermined(t.spec, b) # {}
    THEN Len(t.shape) < DeterminedWidths(t.spec, b)
    ELSE Len(t.shape) # DeterminedWidths(t.spec, b)

\* the loop is at entry t and is about to check its rank: before t is bound
\* (it is not checked, not bound and has at most one undetermined slot), or as
\* the first step of the check of its shape (its spec is checkable)
RankCheckDue(t) ==
    /\ ~IsErr(n_dims_error(t.spec, bindings))
    /\ \/ /\ pc = "visit"
          /\ t.name \notin checked_names \cup binded_names
          /\ Cardinality(Undetermined(t.spec, bindings)) <= 1
       \/ /\ pc = "check"
          /\ spec_is_checkable(t.spec, bindings)

\* C6: an entry is rejected with the rank error exactly when its rank is wrong
\* under the bindings of that moment (smaller than min_rank when its spec has
\* an undetermined slot, different from min_rank when it has none), and the
\* rank check of an entry comes before any binding is taken from it: the step
\* that rejects it leaves the bindings as they were.
C6_RankCheck ==
    [][ /\ (pc \in {"visit", "check"} /\ RankCheckDue(tensors[idx]))
           => (RankBad(tensors[idx], bindings)
               <=> (pc' = "done" /\ result'.kind = "RankMismatch"))
        /\ (pc # "done" /\ pc' = "done" /\ result'.kind = "RankMismatch")
           => /\ pc \in {"visit", "check"}
              /\ RankCheckDue(tensors[idx])
              /\ result'.entries = {tensors[idx].name}
              /\ bindings' = bindings ]_vars

\* an entry that was bound while one of its slots was undetermined is rejected
\* in a later pass, when the bindings of another entry determine that slot
C6_Witness ==
    /\ failed_as("RankMismatch")
    /\ pass_no = 2
    /\ tensors[idx].name \in binded_names
    /\ Undetermined(tensors[idx].spec, kwargs) # {}
    /\ Undetermined(tensors[idx].spec, bindings) = {}

\* the entries whose spec has more than one slot of undetermined width under
\* the bindings b
Underdetermined(b) ==
    {tensors[n].name : n \in {n \in 1..Len(tensors) :
                                Cardinality(Undetermined(tensors[n].spec, b)) > 1}}

\* C7: when the fixed-point loop stops and the spec of some entry still has
\* more than one slot of undetermined width, check_shapes fails with the error
\* of the entries it could not bind, which names every such entry.
C7_Underdetermined ==
    [][ (pc = "residue" /\ Underdetermined(bindings) # {})
        => /\ pc' = "done"
           /\ result'.status = "fail"
           /\ result'.kind = "Unbound"
           /\ Underdetermined(bindings) \subseteq result'.entries ]_vars

\* the only entry of a call has two slots of undetermined width
C7_Witness ==
    /\ failed_as("Unbound")
    /\ Len(args) = 1
    /\ Len(tensors) = 1
    /\ Underdetermined(bindings) = {tensors[1].name}
    /\ result.entries = {tensors[1].name}

\* b2 holds every binding of b1, unchanged
Extends(b2, b1) == \A x \in DOMAIN b1 : x \in DOMAIN b2 /\ b2[x] = b1[x]

\* the observed dimensions of a slot of entry t that is the bare variable of a
\* bound name, without broadcast tolerance, differ from the bound value
DisagreesWithBound(t, b, m) ==
    /\ m.err = ""
    /\ \E i \in 1..Len(t.spec) :
          /\ t.spec[i].value.op = "var"
          /\ ~t.spec[i].can_broadcast
          /\ t.spec[i].value.x \in DOMAIN b
          /\ ~SlotAgrees(t.spec[i], g_slice(t.shape, m.ranges[i]), b[t.spec[i].value.x])

\* C8: during one call of check_shapes the bindings only grow: a step never
\* changes or drops a name that is bound, pre-bound or not; the step that
\* raises a value mismatch leaves the bindings as they were; the check of an
\* entry of the right rank whose observation disagrees with a bound name fails
\* (with the value mismatch, unless an unknown dimension or a slot of the
\* wrong kind is met first) and rebinds nothing; after the start the bindings
\* hold every pre-binding with its value, and so does the returned mapping,
\* names that no spec references included.
C8_BindingsGrow ==
    /\ [](pc \notin {"start", "done"} => Extends(bindings, kwargs))
    /\ [](succeeded => Extends(result.b, kwargs))
    /\ [][ /\ call' = call => Extends(bindings', bindings)
           /\ (pc # "done" /\ pc' = "done" /\ result'.kind = "ValueMismatch")
              => bindings' = bindings
           /\ (/\ pc = "check"
               /\ RankCheckDue(tensors[idx])
               /\ ~RankBad(tensors[idx], bindings)
               /\ DisagreesWithBound(tensors[idx], bindings,
                                     matched_indices(tensors[idx].spec, bindings,
                                                     Len(tensors[idx].shape))))
              => /\ pc' = "done"
                 /\ result'.kind \in {"ValueMismatch", "UnresolvedDimension", "TypeMismatch"}
                 /\ bindings' = bindings ]_vars

\* a call returned a pre-binding that its spec does not reference, next to a
\* name that it bound itself
C8_Witness ==
    /\ succeeded
    /\ \E x \in DOMAIN kwargs :
          /\ \A n \in 1..Len(tensors) : x \notin spec_variables(tensors[n].spec)
          /\ result.b[x] = kwargs[x]
    /\ \E x \in DOMAIN result.b : x \notin DOMAIN kwargs

\* the variables referenced by the specs of the entries
referenced == UNION {spec_variables(tensors[n].spec) : n \in 1..Len(tensors)}

EmptyRepeatedSlot(t, m, i, x) ==
    /\ t.spec[i].value = Variable(x)
    /\ t.spec[i].type = "repeated"
    /\ ~t.spec[i].can_broadcast
    /\ m.err = ""
    /\ m.ranges[i][1] = m.ranges[i][2]

\* every slot of entry t that references a variable without a returned value
\* is an empty REPEATED slot of that bare variable
UnboundOnlyWhereEmpty(t, m) ==
    \A i \in 1..Len(t.spec) :
       \A x \in variables(t.spec[i].value) \ DOMAIN result.b :
          EmptyRepeatedSlot(t, m, i, x)

C10_AsStated ==
    (done /\ call = 2 /\ mode = "without_none") => result = first.result

\* the slots of entry t that have an expression and whose allocated range
\* holds an unknown dimension
UnknownInCheckedSlots(t, m) ==
    {i \in 1..Len(t.spec) :
        /\ t.spec[i].value.op # "none"
        /\ NoneDim \in Range(g_slice(t.shape, m.ranges[i]))}

\* the slots of entry t that are the bare variable of an unbound name, which
\* no earlier slot of t is, and whose allocated range holds an unknown dimension
UnknownInBindingSlots(t, b, m) ==
    {i \in UnknownInCheckedSlots(t, m) :
        /\ t.spec[i].value.op = "var"
        /\ t.spec[i].value.x \notin DOMAIN b
        /\ \A j \in 1..(i - 1) : t.spec[j].value # t.spec[i].value}

\* the unresolved-dimension error that was raised names entry t and a slot of
\* it that has an expression and holds an unknown dimension
UnresolvedNamed(t, m) ==
    /\ m.err = ""
    /\ result.entries = {t.name}
    /\ \E i \in UnknownInCheckedSlots(t, m) :
          /\ result.names = variables(t.spec[i].value)
          /\ result.dim = m.ranges[i][1]

\* C11: an unknown (None) observed dimension is accepted only in the range of
\* a slot without expression: after a successful call no slot with an
\* expression holds one; the unresolved-dimension error names the entry and a
\* slot with an expression that holds one; and the step that binds an entry of
\* the right rank with an unknown dimension in the range of the first slot of
\* the bare variable of an unbound name ends in that error.
C11_UnknownDimension ==
    /\ [](succeeded =>
            \A n \in 1..Len(tensors) :
               UnknownInCheckedSlots(tensors[n],
                                     matched_indices(tensors[n].spec, result.b,
                                                     Len(tensors[n].shape))) = {})
    /\ [](failed_as("UnresolvedDimension") =>
            UnresolvedNamed(tensors[idx],
                            matched_indices(tensors[idx].spec, bindings,
                                            Len(tensors[idx].shape))))
    /\ [][ (/\ pc = "visit"
            /\ RankCheckDue(tensors[idx])
            /\ ~RankBad(tensors[idx], bindings)
            /\ UnknownInBindingSlots(tensors[idx], bindings,
                                     matched_indices(tensors[idx].spec, bindings,
                                                     Len(tensors[idx].shape))) # {})
           => (pc' = "done" /\ result'.kind = "UnresolvedDimension") ]_vars

\* a call accepted an unknown dimension in the range of a slot without
\* expression and bound a variable from another dimension of the entry
C11_Witness ==
    /\ succeeded
    /\ Len(tensors) = 1
    /\ NoneDim \in Range(tensors[1].shape)
    /\ DOMAIN result.b # DOMAIN kwargs

\* the variables referenced by the specs of the entries the failure lists
VariablesOfListed ==
    {x \in referenced :
        \E n \in 1..Len(tensors) :
           tensors[n].name \in result.entries /\ x \in spec_variables(tensors[n].spec)}

\* the failure lists exactly the entries that were bound and never checked
ListsBoundUnchecked ==
    /\ result.entries # {}
    /\ result.entries = {tensors[n].name : n \in 1..Len(tensors)} \ checked_names
    /\ result.entries \subseteq binded_names

\* C12 as stated: the unchecked-residue error lists exactly the entries that
\* were bound and never checked, and every variable it lists as missing is
\* unbound at that moment.
C12_AsStated ==
    failed_as("Unchecked") =>
       /\ ListsBoundUnchecked
       /\ result.names \cap DOMAIN bindings = {}

\* C12: the unchecked-residue error lists exactly the entries that were bound
\* and never checked, and the variables it lists as missing are all the
\* variables that the specs of these entries reference, the bound ones
\* included.
C12_UncheckedResidue ==
    failed_as("Unchecked") =>
       /\ ListsBoundUnchecked
       /\ result.names = VariablesOfListed

\* the unchecked-residue error lists a variable that is bound next to one that
\* is not
C12_Witness ==
    /\ failed_as("Unchecked")
    /\ result.names \cap DOMAIN bindings # {}
    /\ result.names \ DOMAIN bindings # {}

\* the bound entry t is about to have its slots checked one by one, m being
\* the ranges allocated to them
SlotsCheckDue(t, m) ==
    /\ pc = "check"
    /\ ~IsErr(n_dims_error(t.spec, bindings))
    /\ spec_is_checkable(t.spec, bindings)
    /\ ~check_rank(t.shape, t.spec, bindings)
    /\ m.err = ""

\* slot i of t holds an unknown dimension, or its expression does not evaluate
\* to what its slice holds
SlotFails(t, m, i) ==
    \/ NoneDim \in Range(g_slice(t.shape, m.ranges[i]))
    \/ check_value(g_slice(t.shape, m.ranges[i]), t.spec[i],
                   eval(t.spec[i].value, bindings), m.ranges[i][1]).kind # ""

NoExpression(t, i) == t.spec[i].value.op = "none"

ZeroWidth(t, m, i, types) ==
    t.spec[i].type \in types /\ m.ranges[i][1] = m.ranges[i][2]

\* the check of the slots of t fails exactly when a slot fails that has an
\* expression and is not an empty slot of one of the types
FailsBySlotsOtherThan(t, m, types) ==
    SlotsCheckDue(t, m) =>
       ((pc' = "done") <=>
          \E i \in 1..Len(t.spec) :
             ~NoExpression(t, i) /\ ~ZeroWidth(t, m, i, types) /\ SlotFails(t, m, i))

\* C13 as stated: in the per-dimension value check a REPEATED or VARIADIC slot
\* that was allocated zero dimensions, and any slot without an expression, is
\* skipped and cannot make the check fail.
C13_AsStated ==
    [][FailsBySlotsOtherThan(tensors[idx],
                             matched_indices(tensors[idx].spec, bindings,
                                             Len(tensors[idx].shape)),
                             {"repeated", "variadic"})]_vars

\* C13: in the per-dimension value check a REPEATED slot that was allocated
\* zero dimensions, and any slot without an expression, is skipped and cannot
\* make the check fail; a VARIADIC slot that was allocated zero dimensions is
\* checked like any other slot, and the check fails when its expression does
\* not evaluate to the empty tuple.
C13_SkippedSlots ==
    [][FailsBySlotsOtherThan(tensors[idx],
                             matched_indices(tensors[idx].spec, bindings,
                                             Len(tensors[idx].shape)),
                             {"repeated"})]_vars

\* a call succeeded though the expression of an empty REPEATED slot has no
\* value
C13_Witness ==
    /\ succeeded
    /\ \E n \in 1..Len(tensors) :
          \E i \in 1..Len(tensors[n].spec) :
             /\ tensors[n].spec[i].type = "repeated"
             /\ ~is_defined(tensors[n].spec[i].value, DOMAIN result.b)
             /\ tensors[n].name \in checked_names

Aligned(t, n, i) == IF i <= n - Len(t) THEN 1 ELSE t[i - (n - Len(t))]

LongerLen(x, y) == IF Len(x) >= Len(y) THEN Len(x) ELSE Len(y)

\* the aligned positions (1-based) where x and y hold two different values
\* that are both not 1
Mismatches(x, y) ==
    {i \in 1..LongerLen(x, y) :
        /\ Aligned(x, LongerLen(x, y), i) # 1
        /\ Aligned(y, LongerLen(x, y), i) # 1
        /\ Aligned(x, LongerLen(x, y), i) # Aligned(y, LongerLen(x, y), i)}

BroadcastsTo(x, y, out) ==
    /\ Len(out) = LongerLen(x, y)
    /\ \A i \in 1..Len(out) :
          /\ out[i] \in {Aligned(x, Len(out), i), Aligned(y, Len(out), i)}
          /\ Aligned(x, Len(out), i) # 1 => out[i] = Aligned(x, Len(out), i)
          /\ Aligned(y, Len(out), i) # 1 => out[i] = Aligned(y, Len(out), i)

\* C17: BroadcastOp.broadcast(x, y) right-aligns the two tuples, the shorter
\* one padded on the left with 1s, and returns a tuple of the length of the
\* longer one whose element at each aligned position is the value of the pair
\* that is not 1 (the common value when both are equal); it fails iff some
\* aligned pair holds two different values that are both not 1, and then names
\* the first such position, counted from 0 in the aligned tuples, and both
\* values. The value that eval gives to `^` is the same.
C17_Broadcast ==
    /\ broadcast_call.pc \in {"returned", "raised"} =>
          ((broadcast_call.pc = "raised") <=>
              Mismatches(broadcast_call.args[1], broadcast_call.args[2]) # {})
    /\ broadcast_call.pc = "returned" =>
          /\ BroadcastsTo(broadcast_call.args[1], broadcast_call.args[2], broadcast_call.out)
          /\ broadcast(broadcast_call.args[1], broadcast_call.args[2]) = TupV(broadcast_call.out)
    /\ broadcast_call.pc = "raised" =>
          /\ broadcast_call.err[1] + 1 \in Mismatches(broadcast_call.args[1], broadcast_call.args[2])
          /\ \A i \in Mismatches(broadcast_call.args[1], broadcast_call.args[2]) :
                broadcast_call.err[1] + 1 <= i
          /\ broadcast_call.err[2] =
                Aligned(broadcast_call.args[1],
                        LongerLen(broadcast_call.args[1], broadcast_call.args[2]),
                        broadcast_call.err[1] + 1)
          /\ broadcast_call.err[3] =
                Aligned(broadcast_call.args[2],
                        LongerLen(broadcast_call.args[1], broadcast_call.args[2]),
                        broadcast_call.err[1] + 1)
          /\ IsErr(broadcast(broadcast_call.args[1], broadcast_call.args[2]))

\* broadcast failed on tuples of different lengths with two mismatching
\* positions, the first of them not the first position of the longer tuple
C17_Witness ==
    /\ broadcast_call.pc = "raised"
    /\ Len(broadcast_call.args[1]) < Len(broadcast_call.args[2])
    /\ Cardinality(Mismatches(broadcast_call.args[1], broadcast_call.args[2])) = 2
    /\ broadcast_call.err[1] = 1

\* the innermost scope that thread t has entered and not left is an enable
\* scope, or there is none
InnermostEnables(t) == IF contexts[t] = <<>> THEN TRUE ELSE Innermost(t).value

\* the call that starts returns the empty mapping at once
ReturnsEmptyAtOnce == pc' = "done" /\ result' = Returned(EmptyB)

\* C15: check_shapes performs its checks iff the innermost active
\* enable_checks/disable_checks scope is an enable scope or no scope is active;
\* while checks are off it returns the empty mapping for every argument list
\* (spec text that does not parse, kind conflicts, mismatching shapes and
\* pre-bindings included) without raising. The scopes are those of one thread,
\* left at the end of their bodies.
C15_ChecksIffEnabled ==
    /\ [][(pc = "start" /\ pc' # "start") =>
             (ReturnsEmptyAtOnce <=> ~InnermostEnables(MainThread))]_vars
    /\ [](InBody(MainThread) => (should_do_checks <=> InnermostEnables(MainThread)))

\* a call whose spec text does not parse has returned the empty mapping inside
\* a disable scope that is nested in an enable scope nested in a disable scope
\* was left before
C15_Witness ==
    /\ pc = "done"
    /\ result = Returned(EmptyB)
    /\ args[1].spec = Unparsable
    /\ Len(contexts[MainThread]) = 2
    /\ contexts[MainThread][1].value
    /\ ~contexts[MainThread][2].value
    /\ contexts[MainThread][2].pc = "active"

\* thread t has entered a disable scope that it has not left
InOwnDisableScope(t) == \E i \in 1..Len(contexts[t]) : ~contexts[t][i].value

\* C16 as stated: with several threads, entering or leaving a scope in one
\* thread never changes whether a check_shapes call in another thread performs
\* its checks: a call by a thread that is in no disable scope of its own
\* performs its checks, under every interleaving.
C16_AsStated ==
    [][\A t \in Threads :
          (performed'[t] = "skipped" /\ performed[t] # "skipped") => InOwnDisableScope(t)]_vars

RECURSIVE MentionsNegative(_)
MentionsNegative(e) ==
    IF e.op = "lit" THEN e.n < 0
    ELSE IF e.args = <<>> THEN FALSE
    ELSE MentionsNegative(e.args[1]) \/ MentionsNegative(e.args[2])

RECURSIVE MentionsData(_)
MentionsData(e) ==
    IF e.op = "data" THEN TRUE
    ELSE IF e.args = <<>> THEN FALSE
    ELSE MentionsData(e.args[1]) \/ MentionsData(e.args[2])

\* the expression of the slot is written in the grammar: no negative literal,
\* no `$`, and the slot is not the variable named `_`
Writable(d) ==
    /\ ~MentionsNegative(d.value)
    /\ ~MentionsData(d.value)
    /\ d.value # Variable("_")

\* the spec is one the parser can give
Valid(spec) ==
    \/ spec = <<DimSpec(DataExpr, "single", FALSE)>>
    \/ \A n \in 1..Len(spec) : Writable(spec[n])

\* C18 as stated: for every valid DimSpec and ShapeSpec, parsing the string
\* form of the spec, as __str__ gives it, yields a spec equal to the original.
C18_AsStated ==
    (text_call.pc = "parsed" /\ ~text_call.stripped /\ Valid(text_call.spec)) =>
       (text_call.parsed.ok /\ text_call.parsed.dims = text_call.spec)

\* C18: parsing the string form of a spec yields a spec equal to the original
\* (mode, broadcast flag, wildcard and expression structure preserved) exactly
\* when: the square brackets that ShapeSpec.__str__ puts around the dims are
\* removed first; no expression holds a negative literal; no slot is the bare
\* variable named `_`; and `$` occurs only as the whole spec.
C18_RoundTrip ==
    text_call.pc = "parsed" =>
       ((text_call.parsed.ok /\ text_call.parsed.dims = text_call.spec)
          <=> /\ text_call.of = "ShapeSpec" => text_call.stripped
              /\ Valid(text_call.spec))

\* a ShapeSpec of two slots, one of them VARIADIC and broadcast-tolerant with
\* an operator, came back equal from its string form
C18_Witness ==
    /\ text_call.pc = "parsed"
    /\ text_call.of = "ShapeSpec"
    /\ text_call.parsed.ok
    /\ text_call.parsed.dims = text_call.spec
    /\ Len(text_call.spec) = 2
    /\ text_call.spec[1] = can_broadcast(variadic(ConcatOp(Vx, Vy)))
    /\ text_call.spec[2] = repeated(NoExpr)

\* the arguments of `calls`, latest first, that a cache of the given maxsize
\* holds: the most recently used distinct ones, at most maxsize of them
RECURSIVE MostRecent(_, _, _)
MostRecent(calls, maxsize, acc) ==
    IF calls = <<>> \/ (maxsize.bounded /\ Cardinality(acc) >= maxsize.n) THEN acc
    ELSE MostRecent(SubSeq(calls, 1, Len(calls) - 1), maxsize,
                    acc \cup {calls[Len(calls)]})

\* the call at place n of `calls` found its argument among the most recent ones
HitAt(calls, maxsize, n) == calls[n] \in MostRecent(SubSeq(calls, 1, n - 1), maxsize, {})

MissesOf(calls, maxsize) ==
    LET places == {n \in 1..Len(calls) : ~HitAt(calls, maxsize, n)}
        RECURSIVE upto(_)
        upto(n) == IF n = 0 THEN <<>>
                   ELSE IF n \in places THEN Append(upto(n - 1), calls[n])
                   ELSE upto(n - 1)
    IN  upto(Len(calls))

\* C20: a call of a ResizeableLruCache of capacity n is a hit iff its argument
\* is among the n most recently used distinct arguments since the last
\* reset_maxsize or cache_clear, and otherwise a miss that runs the wrapped
\* function exactly once; cache_info reports the hits and misses counted since
\* then and a current size that never exceeds n; reset_maxsize empties the
\* cache and sets both counters to zero.
C20_LruCache ==
    /\ returned.op = "call" =>
          /\ returned.hit <=> HitAt(used, cached_foo.maxsize, Len(used))
          /\ returned.value = foo(returned.arg)
    /\ FUNC_CALLS = MissesOf(used, cached_foo.maxsize)
    /\ cache_info(cached_foo).misses = Len(FUNC_CALLS)
    /\ cache_info(cached_foo).hits = Len(used) - Len(FUNC_CALLS)
    /\ cache_info(cached_foo).currsize = Cardinality(MostRecent(used, cached_foo.maxsize, {}))
    /\ cached_foo.maxsize.bounded => cache_info(cached_foo).currsize <= cached_foo.maxsize.n
    /\ returned.op = "reset_maxsize" =>
          /\ cache_info(cached_foo).currsize = 0
          /\ cache_info(cached_foo).hits = 0
          /\ cache_info(cached_foo).misses = 0

\* a cache of capacity 2 has hit, and now misses on an argument it has seen
\* before and dropped since
C20_Witness ==
    /\ returned.op = "call"
    /\ ~returned.hit
    /\ cached_foo.maxsize = MaxSize(2)
    /\ \E n \in 1..(Len(used) - 1) : used[n] = returned.arg
    /\ cached_foo.hits > 0

\* C19: the specification cache never affects results. Whatever the calls of
\* check_shapes, the resizes and the clears before it, every answer a
\* ShapeSpec object gives about its slots of unknown width, memoized or not,
\* shared or not, is the answer a ShapeSpec freshly parsed from the same text
\* gives under the same bindings, and the object holds the dims of that parse.
C19_CacheTransparent ==
    shape_call.answer.id # 0 =>
       /\ shape_call.answer.dims = parse_shape_spec(shape_call.answer.text).dims
       /\ shape_call.answer.out =
             unknown_n_dims_indices(parse_shape_spec(shape_call.answer.text).dims,
                                    shape_call.answer.bindings)

\* one cached object is held by both entries of a call, the call has bound a
\* variable since the object last made its memo, the memo was made under the
\* bindings of now, and the answer was taken from it
C19_Witness ==
    /\ shape_call.pc = "solving"
    /\ Len(shape_call.entries) = 2
    /\ shape_call.entries[1] = shape_call.entries[2]
    /\ shape_call.answer.hit
    /\ shape_call.answer.bindings = shape_call.bindings
    /\ shape_call.bindings = ("x" :> TupV(<<2>>)) @@ ("y" :> TupV(<<2>>))
    /\ shape_call.answer.out = {}
    /\ cached_parse.hits > 1

IsChecked == dim_call.pc = "done" /\ dim_call.op = "is_checkable"
BareVariable(d) == d.value.op = "var"
AllReferencedBound(d, values) == variables(d.value) \subseteq values

IsBuilt == dim_call.pc = "done" /\ dim_call.op \in {"make_variadic", "make_repeated", "make_can_broadcast"}
IsDefault(d) == d.type = "single" /\ ~d.can_broadcast

\* C26 as stated: each of make_variadic, make_repeated and make_can_broadcast
\* succeeds only on a DimSpec in its default state (SINGLE and not
\* broadcast-tolerant) and rejects any other DimSpec.
C26_AsStated ==
    IsBuilt => (dim_call.out.ok <=> IsDefault(dim_call.d))

BuiltAsCoded(c) ==
    /\ c.out.ok <=> (c.op = "make_can_broadcast" \/ c.d.type = "single")
    /\ c.out.ok =>
          /\ c.out.d.value = c.d.value
          /\ c.out.d.type = (CASE c.op = "make_variadic" -> "variadic"
                               [] c.op = "make_repeated" -> "repeated"
                               [] OTHER -> c.d.type)
          /\ c.out.d.can_broadcast = (c.op = "make_can_broadcast" \/ c.d.can_broadcast)

\* C26: make_variadic and make_repeated succeed exactly on a SINGLE DimSpec,
\* broadcast-tolerant or not, and reject any other; make_can_broadcast succeeds
\* on every DimSpec. On success the builder returns a DimSpec that differs from
\* the receiver in the type, resp. the flag, only, and the receiver is as it
\* was before the call.
C26_Builders ==
    [][(dim_call'.pc = "done" /\ dim_call'.op # "is_checkable") =>
          (dim_call'.d = dim_call.d /\ BuiltAsCoded(dim_call'))]_vars

\* make_can_broadcast gave `*i!` from the VARIADIC `*i`
C26_Witness ==
    /\ IsBuilt
    /\ dim_call.op = "make_can_broadcast"
    /\ dim_call.d = variadic(Vi)
    /\ dim_call.out.ok
    /\ dim_call.out.d = can_broadcast(variadic(Vi))

\* the width of slot d under the bindings b when it is determined, -1 when it
\* is not: 1 for SINGLE, the length of the tuple for a VARIADIC slot whose
\* variables are all bound and whose expression gives a tuple
WidthOf(d, b) ==
    IF d.type = "single" THEN 1
    ELSE IF d.type = "variadic" /\ d.value.op # "none"
            /\ variables(d.value) \subseteq DOMAIN b
            /\ eval(d.value, b).k = "tuple"
    THEN Len(eval(d.value, b).t)
    ELSE -1

UndeterminedSlots(dims, b) == {i \in 1..Len(dims) : WidthOf(dims[i], b) = -1}

RECURSIVE DeterminedTotal(_, _, _)
DeterminedTotal(dims, b, k) ==
    IF k = 0 THEN 0
    ELSE DeterminedTotal(dims, b, k - 1)
         + (IF WidthOf(dims[k], b) = -1 THEN 0 ELSE WidthOf(dims[k], b))

IndicesReturned == indices_call.pc = "done" /\ indices_call.out.err = ""

RangesAsClaimed(dims, b, n, r) ==
    /\ Len(r) = Len(dims)
    /\ \A i \in 1..Len(r) : r[i][1] = (IF i = 1 THEN 0 ELSE r[i - 1][2])
    /\ IF r = <<>> THEN n = 0 ELSE r[Len(r)][2] = n
    /\ \A i \in 1..Len(r) :
          IF i \in UndeterminedSlots(dims, b)
          THEN /\ r[i][2] - r[i][1] = n - DeterminedTotal(dims, b, Len(dims))
               /\ r[i][2] - r[i][1] >= 0
          ELSE r[i][2] - r[i][1] = WidthOf(dims[i], b)

\* C24: whenever ShapeSpec.matched_indices returns, its ranges are in slot
\* order and contiguous, the first starts at 0 and the last ends at the
\* observed rank; every slot of determined width w owns exactly w indices (1
\* for SINGLE) and the single undetermined-width slot, if any, owns exactly
\* observed_rank - min_rank >= 0 indices. It fails when more than one slot has
\* undetermined width.
C24_MatchedIndices ==
    /\ IndicesReturned =>
          /\ Cardinality(UndeterminedSlots(indices_call.dims, indices_call.bindings)) <= 1
          /\ RangesAsClaimed(indices_call.dims, indices_call.bindings, indices_call.n_dims,
                             indices_call.out.ranges)
    /\ (/\ indices_call.pc = "done"
        /\ Cardinality(UndeterminedSlots(indices_call.dims, indices_call.bindings)) > 1)
          => indices_call.out.err # ""

\* `*x ...` with x = (2, 1) on rank 4: the ranges are 0..2 and 2..4
C24_Witness ==
    /\ IndicesReturned
    /\ indices_call.dims = <<variadic(Vx), repeated(NoExpr)>>
    /\ indices_call.bindings = ("x" :> TupV(<<2, 1>>)) @@ ("y" :> TupV(<<2>>))
    /\ indices_call.n_dims = 4
    /\ indices_call.out.ranges = <<<<0, 2>>, <<2, 4>>>>

PriorChecksPassed ==
    /\ indices_call.pc = "done"
    /\ indices_call.out.msg \notin {"Expected rank at least", "Cannot determine matched indices"}
    /\ indices_call.out.err \in {"", "RuntimeError"}

\* C25 as stated: once the check that min_rank does not exceed the observed
\* rank has passed, and at most one slot has undetermined width, the final
\* failure of matched_indices is unreachable.
C25_AsStated ==
    PriorChecksPassed => indices_call.out.msg # "Expected rank"

\* C25: once the check that min_rank does not exceed the observed rank has
\* passed and at most one slot has undetermined width, matched_indices fails
\* with its final failure exactly when no slot has undetermined width and the
\* observed rank is larger than min_rank; with one slot of undetermined width
\* the allocated total always equals the observed rank.
C25_FinalFailure ==
    PriorChecksPassed =>
       (indices_call.out.msg = "Expected rank"
          <=> /\ UndeterminedSlots(indices_call.dims, indices_call.bindings) = {}
              /\ indices_call.n_dims >
                    DeterminedTotal(indices_call.dims, indices_call.bindings,
                                    Len(indices_call.dims)))

\* `i *x` with x = (2,) on rank 3: the widths are all determined, min_rank is 2
\* and the final failure is raised
C25_Witness ==
    /\ indices_call.pc = "done"
    /\ indices_call.out.msg = "Expected rank"
    /\ indices_call.dims = <<single(Vi), variadic(Vx)>>
    /\ indices_call.bindings = "x" :> TupV(<<2>>)
    /\ indices_call.n_dims = 3

\* the innermost scope of thread t has ended in this step
ScopeLeft(t) == Len(contexts'[t]) < Len(contexts[t])

\* C27: when a scope is left, normally or because an exception propagates out
\* of its body, the flag has the value it had when the scope was entered, so
\* that outside of every scope the flag has its value from before the
\* outermost one
C27_AsStated ==
    [][ScopeLeft(MainThread) =>
          /\ EINCHECK_ENABLE_CHECKS' = Innermost(MainThread).prev
          /\ contexts'[MainThread] = <<>> => EINCHECK_ENABLE_CHECKS']_vars

\* the tensor t is one that a visit of the inner loop would bind or check
\* under the bindings b
Resolvable(t, b) ==
    /\ t.name \notin checked_names
    /\ ~IsErr(n_dims_error(t.spec, b))
    /\ Cardinality(unknown_n_dims_indices(t.spec, b)) <= 1
    /\ t.name \in binded_names => spec_is_checkable(t.spec, b)

\* the loop has ended because its len(tensors) passes are used up
PassesUsedUp ==
    /\ pc = "residue"
    /\ pass_no = Len(tensors)
    /\ Cardinality(DOMAIN bindings) # bindings_len

\* C22: when the fixed-point loop ends, and so when it ends because its N
\* passes are used up, a further pass would bind no variable and check no
\* entry: no entry that is left is one that a visit would bind or check,
\* whatever the order of the entries
C22_PassBound ==
    pc = "residue" => \A n \in 1..Len(tensors) : ~Resolvable(tensors[n], bindings)

\* both passes of a call with two entries were needed, the second entry being
\* the one that the first depends on
C22_Witness ==
    /\ PassesUsedUp
    /\ Len(tensors) = 2
    /\ tensors[1].spec = <<variadic(Vx), variadic(Vy)>>
    /\ tensors[2].spec = <<variadic(Vx)>>
    /\ checked_names = {"arg0", "arg1"}
    /\ DOMAIN bindings = {"x", "y"}

\* the second call, with the entries of the first in another order, has ended
ReorderedDone == call = 2 /\ mode = "reordered" /\ pc = "done"

\* C29: for the same entries and pre-bindings in another order check_shapes
\* succeeds exactly when it did, and returns the same bindings
C29_OrderIndependent ==
    ReorderedDone =>
        /\ result.status = "ok" <=> first.result.status = "ok"
        /\ result.status = "ok" => result.b = first.result.b

\* `*x *y` before `*x` and then after it: both calls return x and y
C29_Witness ==
    /\ ReorderedDone
    /\ result.status = "ok"
    /\ Len(args) = 2
    /\ first.args[1].spec = <<variadic(Vx), variadic(Vy)>>
    /\ args[1].spec = <<variadic(Vx)>>
    /\ result.b = ("x" :> TupV(<<2, 1>>)) @@ ("y" :> TupV(<<2, 1>>))

\* the slots of the bound tensor t whose expression _check_shape evaluates
\* under the bindings b, the slots being matched as in m
EvaluatedSlots(t, b, m) ==
    {k \in 1..Len(t.spec) :
        /\ t.spec[k].value.op # "none"
        /\ ~(t.spec[k].type = "repeated" /\ m.ranges[k][1] = m.ranges[k][2])
        /\ NoneDim \notin Range(g_slice(t.shape, m.ranges[k]))}

\* when _check_shape is about to run on the tensor t, every slot of which it
\* evaluates the expression has its variables bound
EvaluatesBound(t, b, m) ==
    (/\ ~IsErr(n_dims_error(t.spec, b))
     /\ spec_is_checkable(t.spec, b)
     /\ m.err = "") =>
        \A k \in EvaluatedSlots(t, b, m) : variables(t.spec[k].value) \subseteq DOMAIN b

\* no call ends with the lookup of an unbound variable or the evaluation of
\* `$`, no gathered tensor has a `$` slot, and _check_shape evaluates bound
\* expressions only
NoLookupFailure ==
    /\ result.kind \notin {"KeyError", "DataExprEval"}
    /\ \A n \in 1..Len(tensors) : \A k \in 1..Len(tensors[n].spec) :
          tensors[n].spec[k].value.op # "data"
    /\ pc = "check" =>
          EvaluatesBound(tensors[idx], bindings,
                         matched_indices(tensors[idx].spec, bindings,
                                         Len(tensors[idx].shape)))

\* the call failed after the loop, for the entries that the loop left
ResidueFailure == pc = "done" /\ result.kind \in {"Unbound", "Unchecked"}

\* the tensors some variable of which is not bound
LackingNames ==
    {tensors[n].name : n \in {n \in 1..Len(tensors) :
                                ~(spec_variables(tensors[n].spec) \subseteq DOMAIN bindings)}}

OutputsChecked ==
    /\ inner_call.pc \in {"returned", "raised"}
    /\ inner_call.events = <<"inputs", "call", "outputs">>

\* the variables bound by the inputs with which a dimension of an output
\* disagrees, the outputs being of the ranks of their specs
Disagreeing ==
    {v \in DOMAIN inner_call.updated_spec :
        \E n \in 1..Len(args) : \E k \in 1..Len(args[n].spec) :
            /\ args[n].spec[k] = single(Variable(v))
            /\ args[n].shape[k] # inner_call.updated_spec[v].t[1]}

RanksFit == \A n \in 1..Len(args) : Len(args[n].shape) = Len(args[n].spec)

\* C21: a decorated function checks its inputs, then calls the function, then
\* checks the outputs; when the input check fails the function is not called;
\* the outputs are checked under the bindings that the input check returned,
\* and an output dimension that disagrees with a variable bound by an input
\* fails with a value mismatch that names that variable
C21_CheckCallCheck ==
    /\ \E n \in 0..3 : inner_call.events = SubSeq(<<"inputs", "call", "outputs">>, 1, n)
    /\ (inner_call.pc = "inputs" /\ pc = "done" /\ result.status # "ok") =>
          inner_call.events = <<"inputs">>
    /\ (inner_call.pc = "raised" /\ Len(inner_call.events) = 1) => result.status # "ok"
    /\ inner_call.pc = "outputs" =>
          /\ kwargs = inner_call.updated_spec
          /\ pc # "start" =>
                \A v \in DOMAIN kwargs : v \in DOMAIN bindings /\ bindings[v] = kwargs[v]
    /\ (OutputsChecked /\ RanksFit) =>
          IF Disagreeing # {}
          THEN /\ inner_call.pc = "raised"
               /\ result.kind = "ValueMismatch"
               /\ result.names # {}
               /\ result.names \subseteq Disagreeing
          ELSE inner_call.pc = "returned" \/ result.kind # "ValueMismatch"

\* check_func("i -> i") on a function of x, called with a tensor of shape
\* (3,), returns one of shape (2,): output0 disagrees with i
C21_Witness ==
    /\ OutputsChecked
    /\ inner_call.pc = "raised"
    /\ get_wrapper.output_shapes = <<Si>>
    /\ inner_call.arguments = <<<<3>>>>
    /\ inner_call.updated_spec = "i" :> IntV(3)
    /\ inner_call.out = [tuple |-> FALSE, items |-> <<<<2>>>>]
    /\ result.kind = "ValueMismatch"
    /\ result.entries = {"output0"}
    /\ result.names = {"i"}

\* the application f of the decorator installed the checks that w, the same
\* application of a decorator made anew, installs
SameChecks(f, w) ==
    /\ inners[f].err = w.err
    /\ inners[f].parsed_names = w.parsed_names
    /\ \A n \in 1..Len(w.parsed_names) :
          item(get_wrapper.input_kwarg_shapes, w.parsed_names[n])
              = item(w.input_shapes, w.parsed_names[n])

\* C30: every application of one decorator to a function has the outcome, and
\* installs the checks, of the application of a decorator made anew with the
\* same arguments
C30_AsStated ==
    \A f \in 1..Len(inners) : SameChecks(f, wrapper(Fresh(get_wrapper), inners[f].sig))

====
